---- MODULE Spec2Model ----
(***************************************************************************)
(* Model of the BakLogMD sync engine: the Backlog API client with its      *)
(* retry loop and status classification (backlog.rs, app_error.rs) and the *)
(* online-first commands with their local-cache fallback (commands.rs,     *)
(* db.rs, keychain.rs), with setup, reset, project sync and export, the    *)
(* credential resolution run by concurrent threads, and the markup         *)
(* converter (markdown.rs).                                                *)
(*                                                                         *)
(* Text (issue keys, keywords, summaries, credentials) is a sequence of    *)
(* one-character strings; an AppResult is Ok(v) or Err(e).                 *)
(***************************************************************************)
EXTENDS Integers, Sequences, FiniteSets, TLC

VARIABLES
    status,        \* StatusClassifier check: the status code handed to map_status_code
    classified,    \* StatusClassifier check: what map_status_code returned for it
    pc,            \* position of the command in flight
    cmd,           \* the command in flight and its (trimmed) argument
    attempt,       \* get_with_retry: loop variable `attempt`
    wait,          \* get_with_retry: `wait`, the current backoff delay in seconds
    sleeps,        \* get_with_retry: the thread::sleep durations so far, in order
    resps,         \* get_with_retry: what each send() of this call produced, in order
    http,          \* get_with_retry: its return value (NoResult while it runs)
    remote,        \* what the BacklogClient method returned (after body decoding)
    result,        \* what the command returned to its caller
    cacheReads,    \* reads of its cache table by the command in flight
    cacheWrites,   \* writes of its cache table by the command in flight
    issues,        \* db: the issues table, issue_key -> row
    space_url,     \* db: app_settings['space_url']
    keychain,      \* the credential store entry
    api_key_cache, \* AppState.api_key_cache
    clock,         \* commands started so far (also the source of synced_at)
    sent,          \* send() calls made by the command in flight
    keychainLoads, \* keychain::load_api_key calls made (by the command in flight)
    resolved,      \* what resolve_api_key returned to the command in flight
    projects,      \* db: the projects table, id -> row
    exports,       \* db: the exports table, oldest row first
    api_key_configured, \* db: app_settings['api_key_configured']
    export_dir,    \* db: app_settings['export_dir']
    target_dir,    \* the export directory on disk: whether it exists, its files
    lock,          \* the thread holding the api_key_cache mutex (0: nobody)
    resolvers,     \* the threads running resolve_api_key (or the credential steps of
                   \* auth_reset, setup_save) concurrently
    md_in,         \* MarkupConverter check: the input text
    md_out,        \* MarkupConverter check: backlog_to_markdown of the input
    md_again       \* MarkupConverter check: backlog_to_markdown of that output

vars == <<status, classified, pc, cmd, attempt, wait, sleeps, resps, http, remote,
          result, cacheReads, cacheWrites, issues, space_url, keychain,
          api_key_cache, clock, sent, keychainLoads, resolved, projects, exports,
          api_key_configured, export_dir, target_dir, lock, resolvers,
          md_in, md_out, md_again>>

retryVars == <<attempt, wait, sleeps, resps, http>>
storeVars == <<issues, space_url, keychain, api_key_cache>>
credVars == <<keychainLoads, resolved>>
dataVars == <<projects, exports, api_key_configured, export_dir, target_dir>>
raceVars == <<lock, resolvers>>
mdVars == <<md_in, md_out, md_again>>

----------------------------------------------------------------------------
(* Bounds of the model *)

\* Status codes checked are 100..MaxStatus (StatusCode itself admits 100..999).
MaxStatus == 600
\* Commands invoked in one behaviour.
MaxOps == 2

----------------------------------------------------------------------------
(* Results and errors (app_error.rs) *)

Ok(v) == [ok |-> TRUE, val |-> v, err |-> [kind |-> "none", msg |-> ""]]
Err(e) == [ok |-> FALSE, val |-> <<>>, err |-> e]
NoResult == [ok |-> FALSE, val |-> <<>>, err |-> [kind |-> "pending", msg |-> ""]]

None == [some |-> FALSE, v |-> <<>>]
Some(x) == [some |-> TRUE, v |-> x]

AuthInvalid == [kind |-> "AuthInvalid", msg |-> ""]
Forbidden == [kind |-> "Forbidden", msg |-> ""]
RateLimit == [kind |-> "RateLimit", msg |-> ""]
NotFound == [kind |-> "NotFound", msg |-> ""]
Network(m) == [kind |-> "Network", msg |-> m]
Keychain(m) == [kind |-> "Keychain", msg |-> m]
Validation(m) == [kind |-> "Validation", msg |-> m]
Db(m) == [kind |-> "Db", msg |-> m]
Unknown(m) == [kind |-> "Unknown", msg |-> m]

----------------------------------------------------------------------------
(* Transport: what one send() can produce *)

\* A response with a status code.
Resp(s) == [t |-> "resp", status |-> s, e |-> "none"]
\* A reqwest::Error; e names what the error reports about itself:
\*   "connect"  is_connect (and is_request)
\*   "timeout"  is_timeout (and is_request)
\*   "request"  is_request only
\*   "other"    none of the three (redirect, builder, body, decode)
TErr(k) == [t |-> "err", status |-> 0, e |-> k]

is_connect(r) == r.e = "connect"
is_timeout(r) == r.e = "timeout"
is_request(r) == r.e \in {"connect", "timeout", "request"}

SampleStatuses == {200, 204, 401, 403, 404, 429, 503}
ErrKinds == {"connect", "timeout", "request", "other"}
Responses == {Resp(s) : s \in SampleStatuses} \cup {TErr(k) : k \in ErrKinds}

\* impl From<reqwest::Error> for AppError
FromReqwestDropsTimeout(e) ==
    IF is_connect(e) THEN Network(e.e) ELSE Unknown(e.e)

FromReqwest(e) ==
    IF is_connect(e) \/ is_timeout(e) \/ is_request(e)
    THEN Network(e.e)
    ELSE Unknown(e.e)

----------------------------------------------------------------------------
(* StatusClassifier (backlog.rs) *)

is_server_error(s) == 500 <= s /\ s <= 599

map_status_code_5xxUnknown(s) ==
    CASE s = 200 -> Ok(<<>>)
      [] s = 401 -> Err(AuthInvalid)
      [] s = 403 -> Err(Forbidden)
      [] s = 429 -> Err(RateLimit)
      [] s = 404 -> Err(NotFound)
      [] OTHER -> Err(Unknown("unexpected status"))

map_status_code(s) ==
    CASE s = 200 -> Ok(<<>>)
      [] s = 401 -> Err(AuthInvalid)
      [] s = 403 -> Err(Forbidden)
      [] s = 429 -> Err(RateLimit)
      [] s = 404 -> Err(NotFound)
      [] is_server_error(s) -> Err(Network("server error"))
      [] OTHER -> Err(Unknown("unexpected status"))

\* map_status: the response itself on 200, the classified error otherwise.
map_status(r) ==
    IF map_status_code(r.status).ok THEN Ok(r) ELSE map_status_code(r.status)

----------------------------------------------------------------------------
(* RetryingHttpClient: BacklogClient::get_with_retry (backlog.rs) *)

max_attempts == 3

\* A command and its arguments: arg is the issue key, the keyword or the space
\* URL; api_key and overwrite are the further arguments of setup_save and of
\* issue_export_markdown.
Cmd(op, arg, api_key, overwrite) ==
    [op |-> op, arg |-> arg, api_key |-> api_key, overwrite |-> overwrite]

Idle == Cmd("none", <<>>, <<>>, FALSE)

\* wait *= 2
NextWaitConstant(w) == w

NextWait(w) == w * 2

\* The two continue conditions of the loop body.
ShouldRetryAlsoServerError(r, a) ==
    /\ a < max_attempts
    /\ \/ r.t = "resp" /\ (r.status = 429 \/ is_server_error(r.status))
       \/ r.t = "err" /\ (is_timeout(r) \/ is_connect(r))

ShouldRetryOffByOne(r, a) ==
    /\ a <= max_attempts
    /\ \/ r.t = "resp" /\ r.status = 429
       \/ r.t = "err" /\ (is_timeout(r) \/ is_connect(r))

ShouldRetryNoAttemptLimit(r, a) ==
    \/ r.t = "resp" /\ r.status = 429
    \/ r.t = "err" /\ (is_timeout(r) \/ is_connect(r))

ShouldRetry(r, a) ==
    \/ r.t = "resp" /\ r.status = 429 /\ a < max_attempts
    \/ r.t = "err" /\ (is_timeout(r) \/ is_connect(r)) /\ a < max_attempts

\* What the loop body returns for a send() result it does not retry.
AttemptOutcome(r) ==
    IF r.t = "resp" THEN map_status(r) ELSE Err(FromReqwest(r))

\* The state at the start of a get_with_retry call.
RetryStart ==
    /\ attempt = 1
    /\ wait = 1
    /\ sleeps = <<>>
    /\ resps = <<>>
    /\ http = NoResult

\* One iteration of the loop over attempt in 1..=max_attempts: the send(), the match on
\* its result and either sleep-and-continue or return; past the last iteration,
\* the statement after the loop.
get_with_retry_iter ==
    /\ pc = "retry"
    /\ IF attempt > max_attempts
       THEN /\ http' = Err(Unknown("retry loop exhausted"))
            /\ pc' = "fetched"
            /\ UNCHANGED <<attempt, wait, sleeps, resps, sent>>
       ELSE \E r \in Responses :
            /\ resps' = Append(resps, r)
            /\ sent' = sent + 1
            /\ IF ShouldRetry(r, attempt)
               THEN /\ sleeps' = Append(sleeps, wait)
                    /\ wait' = NextWait(wait)
                    /\ attempt' = attempt + 1
                    /\ UNCHANGED <<pc, http>>
               ELSE /\ http' = AttemptOutcome(r)
                    /\ pc' = "fetched"
                    /\ UNCHANGED <<attempt, wait, sleeps>>
    /\ UNCHANGED <<status, classified, cmd, remote, result, cacheReads, cacheWrites,
                   issues, space_url, keychain, api_key_cache, clock, credVars,
                   dataVars, raceVars, mdVars>>

----------------------------------------------------------------------------
(* Text: str::trim and SQLite's LIKE *)

IsSpace(c) == c \in {" ", "\n", "\t"}

RECURSIVE TrimStart(_)
TrimStart(s) == IF s # <<>> /\ IsSpace(Head(s)) THEN TrimStart(Tail(s)) ELSE s

RECURSIVE TrimEnd(_)
TrimEnd(s) ==
    IF s # <<>> /\ IsSpace(s[Len(s)]) THEN TrimEnd(SubSeq(s, 1, Len(s) - 1)) ELSE s

\* str::trim
Trim(s) == TrimEnd(TrimStart(s))

\* ASCII case folding, as LIKE applies it.
Lower(c) ==
    CASE c = "K" -> "k"
      [] c = "X" -> "x"
      [] c = "Z" -> "z"
      [] OTHER -> c

\* text LIKE pattern: % is any run of characters, _ any one character, and
\* letters compare without regard to case.
RECURSIVE LikeMatch(_, _)
LikeMatch(p, t) ==
    IF p = <<>> THEN t = <<>>
    ELSE IF Head(p) = "%"
         THEN LikeMatch(Tail(p), t) \/ (t # <<>> /\ LikeMatch(p, Tail(t)))
         ELSE /\ t # <<>>
              /\ Head(p) = "_" \/ Lower(Head(p)) = Lower(Head(t))
              /\ LikeMatch(Tail(p), Tail(t))

----------------------------------------------------------------------------
(* MarkupConverter: backlog_to_markdown (markdown.rs) *)

\* The character U+0060.
Backtick == "backtick"

\* s[i..] starts with the literal lit.
StartsAt(s, i, lit) ==
    /\ i + Len(lit) - 1 <= Len(s)
    /\ SubSeq(s, i, i + Len(lit) - 1) = lit

\* Length of the run of whitespace that starts at s[i].
RECURSIVE SpaceRun(_, _)
SpaceRun(s, i) == IF i <= Len(s) /\ IsSpace(s[i]) THEN 1 + SpaceRun(s, i + 1) ELSE 0

\* (?m)^ means i is the start of the text or follows a line feed.
AtLineStart(s, i) == i = 1 \/ s[i - 1] = "\n"

\* First j >= i where \s* followed by the literal close matches, with no line
\* feed among s[i..j-1] (what .*? may cross); 0 when there is none.
RECURSIVE LazyUpTo(_, _, _, _)
LazyUpTo(s, i, close, spaces) ==
    IF i > Len(s) THEN 0
    ELSE IF StartsAt(s, i + (IF spaces THEN SpaceRun(s, i) ELSE 0), close) THEN i
    ELSE IF s[i] = "\n" THEN 0
    ELSE LazyUpTo(s, i + 1, close, spaces)

\* First j >= i with s[j] = "}" (what [^}]*\} runs up to); 0 when there is none.
RECURSIVE NextBrace(_, _)
NextBrace(s, i) ==
    IF i > Len(s) THEN 0 ELSE IF s[i] = "}" THEN i ELSE NextBrace(s, i + 1)

NoMatch == [len |-> 0, out |-> <<>>]

\* A line-start marker followed by \s+.
LineMarker(s, i, lit, repl) ==
    IF AtLineStart(s, i) /\ StartsAt(s, i, lit) /\ SpaceRun(s, i + Len(lit)) > 0
    THEN [len |-> Len(lit) + SpaceRun(s, i + Len(lit)), out |-> repl]
    ELSE NoMatch

\* \{\{\s*(.*?)\s*\}\}  ->  $1 between two backticks
InlineCode(s, i) ==
    IF ~StartsAt(s, i, <<"{", "{">>) THEN NoMatch
    ELSE LET p == i + 2 + SpaceRun(s, i + 2)
             j == LazyUpTo(s, p, <<"}", "}">>, TRUE)
         IN  IF p > Len(s) \/ j = 0 THEN NoMatch
             ELSE [len |-> (j + SpaceRun(s, j) + 2) - i,
                   out |-> <<Backtick>> \o SubSeq(s, p, j - 1) \o <<Backtick>>]

\* \[\[(.*?)\]\]  ->  $1
BracketLink(s, i) ==
    IF ~StartsAt(s, i, <<"[", "[">>) THEN NoMatch
    ELSE LET j == LazyUpTo(s, i + 2, <<"]", "]">>, FALSE)
         IN  IF j = 0 THEN NoMatch
             ELSE [len |-> (j + 2) - i, out |-> SubSeq(s, i + 2, j - 1)]

\* \{color:[^}]*\}  ->  ""
ColorOpen(s, i) ==
    LET lit == <<"{", "c", "o", "l", "o", "r", ":">>
    IN  IF ~StartsAt(s, i, lit) THEN NoMatch
        ELSE LET j == NextBrace(s, i + Len(lit))
             IN  IF j = 0 THEN NoMatch ELSE [len |-> (j + 1) - i, out |-> <<>>]

\* A literal, removed.
Literal(s, i, lit) ==
    IF StartsAt(s, i, lit) THEN [len |-> Len(lit), out |-> <<>>] ELSE NoMatch

\* The rules in the order backlog_to_markdown applies them.
Rules == <<"h1", "h2", "h3", "list", "code", "link", "color_open", "color_close",
           "quote", "open", "close">>

\* The match of the pattern of a rule that starts at s[i], if any.
MatchAt(rule, s, i) ==
    CASE rule = "h1" -> LineMarker(s, i, <<"h", "1", ".">>, <<"#", " ">>)
      [] rule = "h2" -> LineMarker(s, i, <<"h", "2", ".">>, <<"#", "#", " ">>)
      [] rule = "h3" -> LineMarker(s, i, <<"h", "3", ".">>, <<"#", "#", "#", " ">>)
      [] rule = "list" -> LineMarker(s, i, <<"*">>, <<"-", " ">>)
      [] rule = "code" -> InlineCode(s, i)
      [] rule = "link" -> BracketLink(s, i)
      [] rule = "color_open" -> ColorOpen(s, i)
      [] rule = "color_close" -> Literal(s, i, <<"{", "c", "o", "l", "o", "r", "}">>)
      [] rule = "quote" -> Literal(s, i, <<"{", "q", "u", "o", "t", "e", "}">>)
      [] rule = "open" -> Literal(s, i, <<"{", "{">>)
      [] rule = "close" -> Literal(s, i, <<"}", "}">>)

\* Regex::replace_all: the leftmost matches, left to right, without overlap.
RECURSIVE ReplaceAll(_, _, _)
ReplaceAll(rule, s, i) ==
    IF i > Len(s) THEN <<>>
    ELSE LET m == MatchAt(rule, s, i)
         IN  IF m.len > 0
             THEN m.out \o ReplaceAll(rule, s, i + m.len)
             ELSE <<s[i]>> \o ReplaceAll(rule, s, i + 1)

RECURSIVE ApplyRules(_, _)
ApplyRules(rules, s) ==
    IF rules = <<>> THEN s
    ELSE ApplyRules(Tail(rules), ReplaceAll(Head(rules), s, 1))

backlog_to_markdown_Indents(input) == <<" ">> \o ApplyRules(Rules, input)

backlog_to_markdown(input) == ApplyRules(Rules, input)

----------------------------------------------------------------------------
(* Data the commands work on *)

K1 == <<"k", "1">>
K2 == <<"k", "2">>
IssueKeys == {K1, K2}

\* The stored space URL and the stored credential.
SpaceUrl == <<"u">>
ApiKey == <<"s">>

\* summary and updated of an issue as the remote reports them.
Versions == {[summary |-> <<"x">>, updated |-> 1], [summary |-> <<"k", "1">>, updated |-> 2]}

\* description of an issue as the remote reports it (Option<String>).
Descriptions == {None, Some(<<"*", " ", "{", "{", "z">>)}

\* struct BacklogIssue: the bodies the remote may answer with.
BacklogIssues ==
    {[issue_key |-> k, summary |-> v.summary, description |-> d, updated |-> v.updated] :
        k \in IssueKeys, v \in Versions, d \in Descriptions}

\* Bodies of a keyword search: lists of issues with distinct keys.
BacklogIssueLists ==
    LET plain == {i \in BacklogIssues : ~i.description.some}
    IN  {<<>>} \cup {<<i>> : i \in plain}
        \cup {<<p[1], p[2]>> :
                 p \in {q \in plain \X plain : q[1].issue_key # q[2].issue_key}}

\* A response body as the client decodes it: err is "none" and issue (items) the
\* decoded value, or err is what reading or decoding failed with ("other": a
\* decode error, "timeout": a timeout while reading).
NoIssue == [issue_key |-> <<>>, summary |-> <<>>, description |-> None, updated |-> 0]
DetailBodies ==
    {[err |-> e, issue |-> NoIssue] : e \in {"other", "timeout"}}
    \cup {[err |-> "none", issue |-> i] : i \in BacklogIssues}
ListBodies ==
    {[err |-> e, items |-> <<>>] : e \in {"other", "timeout"}}
    \cup {[err |-> "none", items |-> l] : l \in BacklogIssueLists}

\* Arguments the commands are invoked with.
KeyArgs == {K1, <<" ", "K", "2">>, <<"k">>}
KeywordArgs == {<<" ">>, <<"x", " ">>, <<"k">>, <<"z">>}

\* Where the environment makes a step before the remote call fail.
PreFails == {"none", "db", "keychain", "builder"}
\* Where it makes the cache access after the remote call fail: nowhere (0), in
\* the n-th statement run on the opened connection (n), or in Db::open (DbOpen).
DbOpen == -1
DbFails == {DbOpen, 0, 1, 2}

\* The bodies to choose from once get_with_retry has returned h: there is a
\* body to decode only if it returned a response.
BodiesFor(h, bodies) == IF h.ok THEN bodies ELSE {x \in bodies : x.err = "other"}

----------------------------------------------------------------------------
(* LocalCache: the issues table (db.rs) *)

EmptyTable == [k \in {} |-> None]

Row(summary, raw, md, updated_at, synced_at) ==
    [summary |-> summary, description_raw |-> raw, description_md |-> md,
     updated_at |-> updated_at, synced_at |-> synced_at]

Put(tbl, key, row) ==
    [k \in DOMAIN tbl \cup {key} |-> IF k = key THEN row ELSE tbl[k]]

\* Db::upsert_issue_detail
upsert_issue_detail_KeepsOldRow(tbl, d, now) ==
    IF d.issue_key \in DOMAIN tbl THEN tbl
    ELSE Put(tbl, d.issue_key,
             Row(d.summary, Some(d.description_raw), Some(d.description_md),
                 d.updated_at, now))

upsert_issue_detail(tbl, d, now) ==
    Put(tbl, d.issue_key,
        Row(d.summary, Some(d.description_raw), Some(d.description_md),
            d.updated_at, now))

\* Db::upsert_issue_summary: the description columns are left alone (NULL in a
\* new row).
upsert_issue_summary(tbl, sm, now) ==
    IF sm.issue_key \in DOMAIN tbl
    THEN Put(tbl, sm.issue_key,
             [tbl[sm.issue_key] EXCEPT !.summary = sm.summary,
                                       !.updated_at = sm.updated_at,
                                       !.synced_at = now])
    ELSE Put(tbl, sm.issue_key, Row(sm.summary, None, None, sm.updated_at, now))

\* COALESCE(column, '')
Coalesce(o) == IF o.some THEN o.v ELSE <<>>

\* Db::get_issue_detail_local: the row whose issue_key equals the key.
get_issue_detail_local(tbl, key) ==
    IF key \in DOMAIN tbl
    THEN Some([issue_key |-> key,
               summary |-> tbl[key].summary,
               description_raw |-> Coalesce(tbl[key].description_raw),
               description_md |-> Coalesce(tbl[key].description_md),
               updated_at |-> tbl[key].updated_at,
               synced_at |-> tbl[key].synced_at])
    ELSE None

IssueSummary(key, summary, updated_at) ==
    [issue_key |-> key, summary |-> summary, updated_at |-> updated_at]

\* The keys of the rows with issue_key LIKE %keyword% OR summary LIKE %keyword%.
LocalMatches(tbl, keyword) ==
    LET like == <<"%">> \o keyword \o <<"%">>
    IN  {k \in DOMAIN tbl : LikeMatch(like, k) \/ LikeMatch(like, tbl[k].summary)}

\* Db::search_issue_summaries_local: the lists it may return, the matching rows
\* ORDER BY updated_at DESC (rows with equal updated_at come in either order).
search_issue_summaries_local(tbl, keyword) ==
    LET m == LocalMatches(tbl, keyword)
        n == Cardinality(m)
        orders == {f \in [1..n -> m] :
                     /\ \A i, j \in 1..n : i # j => f[i] # f[j]
                     /\ \A i, j \in 1..n :
                            i < j => tbl[f[i]].updated_at >= tbl[f[j]].updated_at}
    IN  {[i \in 1..n |-> IssueSummary(f[i], tbl[f[i]].summary, tbl[f[i]].updated_at)] :
            f \in orders}

----------------------------------------------------------------------------
(* Credential store and client construction (keychain.rs, commands.rs, backlog.rs) *)

\* keychain::load_api_key
load_api_key(fail) ==
    IF fail = "keychain" THEN Err(Keychain("keyring"))
    ELSE IF keychain.some /\ Trim(keychain.v) # <<>> THEN Ok(Some(Trim(keychain.v)))
    ELSE Ok(None)

pick_api_key(cached, loaded) ==
    IF cached.some /\ Trim(cached.v) # <<>> THEN Ok(cached.v)
    ELSE IF loaded.some /\ Trim(loaded.v) # <<>> THEN Ok(loaded.v)
    ELSE Err(Keychain("API key is not configured in Keychain"))

\* What resolve_api_key comes to: its result, the api_key_cache it leaves and
\* the number of keychain::load_api_key calls it made.
Resolution(res, cache, loads) == [res |-> res, cache |-> cache, loads |-> loads]

\* resolve_api_key, run by one thread without interference.
resolve_api_key_NoCacheWrite(fail) ==
    IF api_key_cache.some
    THEN Resolution(pick_api_key(api_key_cache, None), api_key_cache, 0)
    ELSE LET loaded == load_api_key(fail)
         IN  IF ~loaded.ok
             THEN Resolution(Err(loaded.err), api_key_cache, 1)
             ELSE Resolution(pick_api_key(None, loaded.val), api_key_cache, 1)

resolve_api_key(fail) ==
    IF api_key_cache.some
    THEN Resolution(pick_api_key(api_key_cache, None), api_key_cache, 0)
    ELSE LET loaded == load_api_key(fail)
         IN  IF ~loaded.ok
             THEN Resolution(Err(loaded.err), api_key_cache, 1)
             ELSE LET key == pick_api_key(None, loaded.val)
                  IN  IF key.ok
                      THEN Resolution(key, Some(key.val), 1)
                      ELSE Resolution(key, api_key_cache, 1)

\* BacklogClient::new
BacklogClient_new_NoValidation(base_url, api_key, fail) ==
    IF fail = "builder" THEN Err(FromReqwest(TErr("other")))
    ELSE Ok([base_url |-> Trim(base_url), api_key |-> Trim(api_key)])

BacklogClient_new(base_url, api_key, fail) ==
    IF Trim(base_url) = <<>> THEN Err(Validation("space URL is required"))
    ELSE IF Trim(api_key) = <<>> THEN Err(Validation("API key is required"))
    ELSE IF fail = "builder" THEN Err(FromReqwest(TErr("other")))
    ELSE Ok([base_url |-> Trim(base_url), api_key |-> Trim(api_key)])

\* What the part of a command before its request comes to: the client or the
\* error of making it, the api_key_cache it leaves, the load_api_key calls made
\* and what resolve_api_key returned (NoResult where it was not called).
Client(res, cache, loads, key) ==
    [res |-> res, cache |-> cache, loads |-> loads, key |-> key]

\* get_client
get_client(fail) ==
    IF fail = "db" THEN Client(Err(Db("sqlite")), api_key_cache, 0, NoResult)
    ELSE IF ~space_url.some
    THEN Client(Err(Validation("Space URL is not configured")), api_key_cache, 0, NoResult)
    ELSE LET key == resolve_api_key(fail)
         IN  IF ~key.res.ok THEN Client(Err(key.res.err), key.cache, key.loads, key.res)
             ELSE Client(BacklogClient_new(Trim(space_url.v), key.res.val, fail),
                         key.cache, key.loads, key.res)

----------------------------------------------------------------------------
(* RemoteIssueSource: what follows get_with_retry in the client (backlog.rs) *)

\* BacklogClient::to_detail
to_detail_MdIsRaw(issue, now) ==
    [issue_key |-> issue.issue_key,
     summary |-> issue.summary,
     description_raw |-> Coalesce(issue.description),
     description_md |-> Coalesce(issue.description),
     updated_at |-> issue.updated,
     synced_at |-> now]

to_detail(issue, now) ==
    LET raw == Coalesce(issue.description)
    IN  [issue_key |-> issue.issue_key,
         summary |-> issue.summary,
         description_raw |-> raw,
         description_md |-> backlog_to_markdown(raw),
         updated_at |-> issue.updated,
         synced_at |-> now]

RECURSIVE ToSummaries(_)
ToSummaries(items) ==
    IF items = <<>> THEN <<>>
    ELSE <<IssueSummary(Head(items).issue_key, Head(items).summary, Head(items).updated)>>
         \o ToSummaries(Tail(items))

\* BacklogClient::fetch_issue_by_key, from the return of get_with_retry on.
fetch_issue_by_key(h, body, now) ==
    IF ~h.ok THEN Err(h.err)
    ELSE IF body.err # "none" THEN Err(FromReqwest(TErr(body.err)))
    ELSE Ok(to_detail(body.issue, now))

\* BacklogClient::search_issues_by_keyword, from the return of get_with_retry on.
search_issues_by_keyword(h, body) ==
    IF ~h.ok THEN Err(h.err)
    ELSE IF body.err # "none" THEN Err(FromReqwest(TErr(body.err)))
    ELSE Ok(ToSummaries(body.items))

----------------------------------------------------------------------------
(* SyncOrchestrator: the online-first commands (commands.rs) *)

\* What the part of a handler after the remote call comes to: the value it
\* returns, the issues table it leaves, and the read and write statements it
\* issued on that table.
Outcome(res, tbl, reads, writes) ==
    [res |-> res, tbl |-> tbl, reads |-> reads, writes |-> writes]

\* The match arm  Err(e @ AppError::Network(_)) | Err(e @ AppError::RateLimit)
FallbackEligibleAnyError(e) == TRUE

FallbackEligibleAlsoAuth(e) == e.kind \in {"Network", "RateLimit", "AuthInvalid"}

FallbackEligible(e) == e.kind \in {"Network", "RateLimit"}

\* Option::ok_or(e) on the cached detail
OkOrDropsHit(got, e) == Err(e)

OkOrDefault(got, e) ==
    IF got.some THEN Ok(got.v)
    ELSE Ok([issue_key |-> <<>>, summary |-> <<>>, description_raw |-> <<>>,
             description_md |-> <<>>, updated_at |-> 0, synced_at |-> 0])

OkOr(got, e) == IF got.some THEN Ok(got.v) ELSE Err(e)

\* if fallback.is_empty() { Err(e) } else { Ok(fallback) }
NonEmptyOrFirst(fallback, e) == IF fallback = <<>> THEN Err(e) ELSE Ok(<<fallback[1]>>)

NonEmptyOr(fallback, e) == IF fallback = <<>> THEN Err(e) ELSE Ok(fallback)

\* The failures to choose from for the cache access that follows the remote
\* result r and runs up to n statements: none where the cache is not touched.
DbFailsFor(r, n) ==
    IF r.ok \/ FallbackEligible(r.err) THEN {f \in DbFails : f <= n} ELSE {0}

\* fetch_detail_online_first, from the return of fetch_issue_by_key on.
fetch_detail_online_first(r, issue_key, dbFail, now) ==
    IF r.ok
    THEN IF dbFail = DbOpen THEN Outcome(Err(Db("sqlite")), issues, 0, 0)
         ELSE IF dbFail = 1 THEN Outcome(Err(Db("sqlite")), issues, 0, 1)
         ELSE Outcome(Ok(r.val), upsert_issue_detail(issues, r.val, now), 0, 1)
    ELSE IF FallbackEligible(r.err)
    THEN IF dbFail = DbOpen THEN Outcome(Err(Db("sqlite")), issues, 0, 0)
         ELSE IF dbFail = 1 THEN Outcome(Err(Db("sqlite")), issues, 1, 0)
         ELSE Outcome(OkOr(get_issue_detail_local(issues, issue_key), r.err), issues, 1, 0)
    ELSE Outcome(Err(r.err), issues, 0, 0)

\* The loop of upsert_issue_summary over the first n search results.
RECURSIVE UpsertSummaries(_, _, _, _)
UpsertSummaries(tbl, items, n, now) ==
    IF n = 0 THEN tbl
    ELSE upsert_issue_summary(UpsertSummaries(tbl, items, n - 1, now), items[n], now)

\* A command starts: position, command and argument are set, and the client is
\* there or the command has returned the error of making it.
Begin(c, client) ==
    /\ pc = "idle"
    /\ clock < MaxOps
    /\ clock' = clock + 1
    /\ cmd' = c
    /\ api_key_cache' = client.cache
    /\ keychainLoads' = client.loads
    /\ resolved' = client.key
    /\ IF client.res.ok
       THEN pc' = (IF c.op = "setup_save" THEN "verify" ELSE "retry") /\ result' = NoResult
       ELSE pc' = "done" /\ result' = Err(client.res.err)
    /\ remote' = NoResult
    /\ cacheReads' = 0
    /\ cacheWrites' = 0
    /\ sent' = 0
    /\ UNCHANGED <<status, classified, retryVars, issues, space_url, keychain,
                   dataVars, raceVars, mdVars>>

\* A command returns res after its client call returned r; the locals of the
\* request are gone.
End(r, res) ==
    /\ remote' = r
    /\ result' = res
    /\ pc' = "done"
    /\ attempt' = 1
    /\ wait' = 1
    /\ sleeps' = <<>>
    /\ resps' = <<>>
    /\ http' = NoResult
    /\ UNCHANGED <<status, classified, cmd, clock, sent, credVars, raceVars, mdVars>>

\* A command on issues returns: what it returns and what it did to the issues
\* table.
Finish(r, o) ==
    /\ End(r, o.res)
    /\ issues' = o.tbl
    /\ cacheReads' = o.reads
    /\ cacheWrites' = o.writes
    /\ UNCHANGED <<space_url, keychain, api_key_cache, dataVars>>

\* issue_get_detail, up to the request
issue_get_detail_start ==
    \E arg \in KeyArgs, fail \in PreFails :
        Begin(Cmd("issue_get_detail", Trim(arg), <<>>, FALSE), get_client(fail))

\* issue_get_detail, from the return of get_with_retry on
issue_get_detail_finish ==
    /\ pc = "fetched"
    /\ cmd.op = "issue_get_detail"
    /\ \E body \in BodiesFor(http, DetailBodies) :
       \E r \in {fetch_issue_by_key(http, body, clock)} :
       \E dbFail \in DbFailsFor(r, 1) :
       \E o \in {fetch_detail_online_first(r, cmd.arg, dbFail, clock)} :
           Finish(r, o)

\* issues_search_by_key, up to the request
issues_search_by_key_start ==
    \E arg \in KeyArgs, fail \in PreFails :
        Begin(Cmd("issues_search_by_key", Trim(arg), <<>>, FALSE), get_client(fail))

\* issues_search_by_key, from the return of get_with_retry on
issues_search_by_key_finish ==
    /\ pc = "fetched"
    /\ cmd.op = "issues_search_by_key"
    /\ \E body \in BodiesFor(http, DetailBodies) :
       \E r \in {fetch_issue_by_key(http, body, clock)} :
       \E dbFail \in DbFailsFor(r, 1) :
               IF r.ok
               THEN LET summary == IssueSummary(r.val.issue_key, r.val.summary,
                                                r.val.updated_at)
                    IN  Finish(r,
                            IF dbFail = DbOpen
                            THEN Outcome(Err(Db("sqlite")), issues, 0, 0)
                            ELSE IF dbFail = 1
                            THEN Outcome(Err(Db("sqlite")), issues, 0, 1)
                            ELSE Outcome(Ok(<<summary>>),
                                         upsert_issue_detail(issues, r.val, clock), 0, 1))
               ELSE IF FallbackEligible(r.err)
               THEN IF dbFail = DbOpen
                    THEN Finish(r, Outcome(Err(Db("sqlite")), issues, 0, 0))
                    ELSE IF dbFail = 1
                    THEN Finish(r, Outcome(Err(Db("sqlite")), issues, 1, 0))
                    ELSE \E fallback \in search_issue_summaries_local(issues, cmd.arg) :
                             Finish(r, Outcome(NonEmptyOr(fallback, r.err), issues, 1, 0))
               ELSE Finish(r, Outcome(Err(r.err), issues, 0, 0))

\* issues_search_by_keyword, up to the request
issues_search_by_keyword_start ==
    \E arg \in KeywordArgs, fail \in PreFails :
        IF Trim(arg) = <<>>
        THEN Begin(Cmd("issues_search_by_keyword", Trim(arg), <<>>, FALSE),
                   Client(Err(Validation("keyword is required")), api_key_cache, 0,
                          NoResult))
        ELSE Begin(Cmd("issues_search_by_keyword", Trim(arg), <<>>, FALSE),
                   get_client(fail))

\* issues_search_by_keyword, from the return of get_with_retry on
issues_search_by_keyword_finish ==
    /\ pc = "fetched"
    /\ cmd.op = "issues_search_by_keyword"
    /\ \E body \in BodiesFor(http, ListBodies) :
       \E r \in {search_issues_by_keyword(http, body)} :
       \E dbFail \in DbFailsFor(r, IF r.ok THEN Len(r.val) ELSE 1) :
               IF r.ok
               THEN Finish(r,
                        IF dbFail = DbOpen
                        THEN Outcome(Err(Db("sqlite")), issues, 0, 0)
                        ELSE IF dbFail \in 1..Len(r.val)
                        THEN Outcome(Err(Db("sqlite")),
                                     UpsertSummaries(issues, r.val, dbFail - 1, clock),
                                     0, dbFail)
                        ELSE Outcome(Ok(r.val),
                                     UpsertSummaries(issues, r.val, Len(r.val), clock),
                                     0, Len(r.val)))
               ELSE IF FallbackEligible(r.err)
               THEN IF dbFail = DbOpen
                    THEN Finish(r, Outcome(Err(Db("sqlite")), issues, 0, 0))
                    ELSE IF dbFail = 1
                    THEN Finish(r, Outcome(Err(Db("sqlite")), issues, 1, 0))
                    ELSE \E fallback \in search_issue_summaries_local(issues, cmd.arg) :
                             Finish(r, Outcome(NonEmptyOr(fallback, r.err), issues, 1, 0))
               ELSE Finish(r, Outcome(Err(r.err), issues, 0, 0))

----------------------------------------------------------------------------
(* Projects: fetch_projects (backlog.rs), the projects table (db.rs) and
   projects_sync (commands.rs) *)

\* struct BacklogProject: the projects the remote may list.
ProjectIds == {1, 2}
ProjectKeys == {<<"a">>, <<"b">>}
BacklogProjects ==
    {[id |-> i, project_key |-> k, name |-> <<"n">>] : i \in ProjectIds, k \in ProjectKeys}

\* Bodies of the project listing: lists of projects with distinct ids.
BacklogProjectLists ==
    {<<>>} \cup {<<p>> : p \in BacklogProjects}
    \cup {<<p[1], p[2]>> :
             p \in {q \in BacklogProjects \X BacklogProjects : q[1].id # q[2].id}}
ProjectBodies ==
    {[err |-> e, items |-> <<>>] : e \in {"other", "timeout"}}
    \cup {[err |-> "none", items |-> l] : l \in BacklogProjectLists}

Project(id, project_key, name, synced_at) ==
    [id |-> id, project_key |-> project_key, name |-> name, synced_at |-> synced_at]

RECURSIVE ToProjects(_, _)
ToProjects(payload, now) ==
    IF payload = <<>> THEN <<>>
    ELSE <<Project(Head(payload).id, Head(payload).project_key, Head(payload).name, now)>>
         \o ToProjects(Tail(payload), now)

\* BacklogClient::fetch_projects, from the return of get_with_retry on.
fetch_projects(h, body, now) ==
    IF ~h.ok THEN Err(h.err)
    ELSE IF body.err # "none" THEN Err(FromReqwest(TErr(body.err)))
    ELSE Ok(ToProjects(body.items, now))

\* Db::upsert_projects: the table once the first n projects are executed; the
\* table is keyed by id and nothing else is touched.
RECURSIVE upsert_projects_ReplacesTable(_, _, _, _)
upsert_projects_ReplacesTable(tbl, ps, n, now) ==
    IF n = 0 THEN EmptyTable
    ELSE Put(upsert_projects_ReplacesTable(tbl, ps, n - 1, now), ps[n].id,
             [project_key |-> ps[n].project_key, name |-> ps[n].name, synced_at |-> now])

RECURSIVE upsert_projects(_, _, _, _)
upsert_projects(tbl, ps, n, now) ==
    IF n = 0 THEN tbl
    ELSE Put(upsert_projects(tbl, ps, n - 1, now), ps[n].id,
             [project_key |-> ps[n].project_key, name |-> ps[n].name, synced_at |-> now])

\* The byte of a character, as the BINARY collation compares text.
Byte(c) ==
    CASE c = "a" -> 97
      [] c = "b" -> 98
      [] OTHER -> 0

\* a <= b as ORDER BY ... ASC puts text.
RECURSIVE TextLeq(_, _)
TextLeq(a, b) ==
    IF a = <<>> THEN TRUE
    ELSE IF b = <<>> THEN FALSE
    ELSE IF Byte(Head(a)) # Byte(Head(b)) THEN Byte(Head(a)) < Byte(Head(b))
    ELSE TextLeq(Tail(a), Tail(b))

\* Db::list_projects: the lists it may return, all rows ORDER BY project_key ASC
\* (rows with equal project_key come in either order).
list_projects(tbl) ==
    LET n == Cardinality(DOMAIN tbl)
        orders == {f \in [1..n -> DOMAIN tbl] :
                     /\ \A i, j \in 1..n : i # j => f[i] # f[j]
                     /\ \A i, j \in 1..n :
                            i < j => TextLeq(tbl[f[i]].project_key, tbl[f[j]].project_key)}
    IN  {[i \in 1..n |-> Project(f[i], tbl[f[i]].project_key, tbl[f[i]].name,
                                 tbl[f[i]].synced_at)] : f \in orders}

\* projects_sync, up to the request
projects_sync_start ==
    \E fail \in PreFails :
        Begin(Cmd("projects_sync", <<>>, <<>>, FALSE), get_client(fail))

\* The rest of a command that touches neither the issues table nor the export
\* directory and leaves the stored setup alone.
EndProjects_FallsBack(r, res, tbl, reads, writes) ==
    /\ IF ~r.ok /\ FallbackEligible(r.err) /\ DOMAIN projects # {}
       THEN /\ \E listed \in list_projects(projects) : End(r, Ok(listed))
            /\ cacheReads' = 1
       ELSE /\ End(r, res)
            /\ cacheReads' = reads
    /\ projects' = tbl
    /\ cacheWrites' = writes
    /\ UNCHANGED <<storeVars, exports, api_key_configured, export_dir, target_dir>>

EndProjects(r, res, tbl, reads, writes) ==
    /\ End(r, res)
    /\ projects' = tbl
    /\ cacheReads' = reads
    /\ cacheWrites' = writes
    /\ UNCHANGED <<storeVars, exports, api_key_configured, export_dir, target_dir>>

\* projects_sync, from the return of get_with_retry on: fetch_projects?, then
\* open_db?, upsert_projects? (one execute per project) and list_projects.
projects_sync_finish ==
    /\ pc = "fetched"
    /\ cmd.op = "projects_sync"
    /\ \E body \in BodiesFor(http, ProjectBodies) :
       \E r \in {fetch_projects(http, body, clock)} :
           IF ~r.ok THEN EndProjects(r, Err(r.err), projects, 0, 0)
           ELSE \E dbFail \in {DbOpen} \cup (0..(Len(r.val) + 1)) :
                    IF dbFail = DbOpen
                    THEN EndProjects(r, Err(Db("sqlite")), projects, 0, 0)
                    ELSE IF dbFail \in 1..Len(r.val)
                    THEN EndProjects(r, Err(Db("sqlite")),
                                     upsert_projects(projects, r.val, dbFail - 1, clock),
                                     0, dbFail)
                    ELSE \E tbl \in {upsert_projects(projects, r.val, Len(r.val), clock)} :
                             IF dbFail = Len(r.val) + 1
                             THEN EndProjects(r, Err(Db("sqlite")), tbl, 1, Len(r.val))
                             ELSE \E listed \in list_projects(tbl) :
                                      EndProjects(r, Ok(listed), tbl, 1, Len(r.val))

----------------------------------------------------------------------------
(* Setup and reset: verify_connection (backlog.rs), setup_save and auth_reset
   (commands.rs), save_api_key and delete_api_key (keychain.rs) *)

\* Arguments setup_save is invoked with.
SetupUrls == {<<" ">>, <<"u", " ">>}
SetupKeys == {<<" ">>, <<" ", "t">>}

\* The value save_api_key_configured_marker(true) stores.
Configured == <<"1">>

\* BacklogClient::verify_connection, from the result r of its send() on.
verify_connection_result_IgnoresStatus(r) ==
    IF r.t = "err" THEN Err(FromReqwest(r)) ELSE Ok(<<>>)

verify_connection_result(r) ==
    IF r.t = "err" THEN Err(FromReqwest(r))
    ELSE IF map_status(r).ok THEN Ok(<<>>) ELSE Err(map_status(r).err)

\* setup_save, up to the request: BacklogClient::new on the arguments.
setup_save_start ==
    \E url \in SetupUrls, key \in SetupKeys, fail \in {"none", "builder"} :
        Begin(Cmd("setup_save", url, key, FALSE),
              Client(BacklogClient_new(url, key, fail), api_key_cache, 0, NoResult))

\* BacklogClient::verify_connection: one send(), outside get_with_retry.
verify_connection ==
    /\ pc = "verify"
    /\ \E r \in Responses :
           /\ resps' = <<r>>
           /\ http' = verify_connection_result(r)
    /\ sent' = sent + 1
    /\ pc' = "fetched"
    /\ UNCHANGED <<status, classified, cmd, attempt, wait, sleeps, remote, result,
                   cacheReads, cacheWrites, storeVars, clock, credVars, dataVars,
                   raceVars, mdVars>>

\* Where the environment makes a step of setup_save after the verification, or
\* of auth_reset, fail.
SetupFails == {"none", "keychain", "open", "space_url", "marker"}
ResetFails == {"none", "keychain", "open", "marker", "space_url", "export_dir"}

\* setup_save, from the return of verify_connection on: save_api_key?, the
\* cache, open_db?, save_space_url?, save_api_key_configured_marker?.
setup_save_finish ==
    /\ pc = "fetched"
    /\ cmd.op = "setup_save"
    /\ IF ~http.ok
       THEN /\ End(http, Err(http.err))
            /\ UNCHANGED <<space_url, keychain, api_key_cache, api_key_configured>>
       ELSE \E fail \in SetupFails :
            /\ End(http, IF fail = "none" THEN Ok(<<>>)
                         ELSE IF fail = "keychain" THEN Err(Keychain("keyring"))
                         ELSE Err(Db("sqlite")))
            /\ keychain' = IF fail = "keychain" THEN keychain ELSE Some(Trim(cmd.api_key))
            /\ api_key_cache' = IF fail = "keychain" THEN api_key_cache
                                ELSE Some(Trim(cmd.api_key))
            /\ space_url' = IF fail \in {"none", "marker"} THEN Some(cmd.arg) ELSE space_url
            /\ api_key_configured' = IF fail = "none" THEN Some(Configured)
                                     ELSE api_key_configured
    /\ UNCHANGED <<issues, projects, exports, export_dir, target_dir, cacheReads,
                   cacheWrites>>

\* auth_reset: delete_api_key?, the cache, open_db?, then the three settings
\* rows deleted one statement after the other.
auth_reset ==
    /\ pc = "idle"
    /\ clock < MaxOps
    /\ clock' = clock + 1
    /\ cmd' = Cmd("auth_reset", <<>>, <<>>, FALSE)
    /\ pc' = "done"
    /\ \E fail \in ResetFails :
           /\ result' = IF fail = "none" THEN Ok(<<>>)
                        ELSE IF fail = "keychain" THEN Err(Keychain("keyring"))
                        ELSE Err(Db("sqlite"))
           /\ keychain' = IF fail = "keychain" THEN keychain ELSE None
           /\ api_key_cache' = IF fail = "keychain" THEN api_key_cache ELSE None
           /\ api_key_configured' =
                  IF fail \in {"none", "space_url", "export_dir"} THEN None
                  ELSE api_key_configured
           /\ space_url' = IF fail \in {"none", "export_dir"} THEN None ELSE space_url
           /\ export_dir' = IF fail = "none" THEN None ELSE export_dir
    /\ remote' = NoResult
    /\ cacheReads' = 0
    /\ cacheWrites' = 0
    /\ sent' = 0
    /\ keychainLoads' = 0
    /\ resolved' = NoResult
    /\ UNCHANGED <<status, classified, retryVars, issues, projects, exports, target_dir,
                   raceVars, mdVars>>

----------------------------------------------------------------------------
(* Export: issue_export_markdown and next_available_export_path (commands.rs),
   insert_export_history (db.rs) *)

\* for i in 1..=9_999
MaxExportIndex == 9999

\* The directory issue_export_markdown is invoked with.
TargetDir == <<"d">>

DigitChars == <<"0", "1", "2", "3", "4", "5", "6", "7", "8", "9">>

\* format!("{i}")
RECURSIVE Decimal(_)
Decimal(i) ==
    IF i < 10 THEN <<DigitChars[i + 1]>>
    ELSE Decimal(i \div 10) \o <<DigitChars[(i % 10) + 1]>>

\* The file names an export can choose for an issue key: the base name, a
\* numbered candidate, the overflow name.
BaseName(issue_key) == [issue_key |-> issue_key, kind |-> "base", i |-> 0]
NumberedName(issue_key, i) == [issue_key |-> issue_key, kind |-> "numbered", i |-> i]
OverflowName(issue_key) == [issue_key |-> issue_key, kind |-> "overflow", i |-> 0]

\* format!("{issue_key}.md"), format!("{issue_key}({i}).md") and
\* format!("{issue_key}(overflow).md")
FileName(name) ==
    name.issue_key
    \o (CASE name.kind = "base" -> <<>>
          [] name.kind = "numbered" -> <<"(">> \o Decimal(name.i) \o <<")">>
          [] name.kind = "overflow" -> <<"(", "o", "v", "e", "r", "f", "l", "o", "w", ")">>)
    \o <<".", "m", "d">>

\* target_dir.join(file name), as path.to_string_lossy() gives it
PathText(name) == TargetDir \o <<"/">> \o FileName(name)

\* The export directory on disk: whether it exists, the files in it that are
\* listed one by one (name -> content), and the issue keys all of whose
\* numbered candidates are in it as well.
Dir(exists, files, full) == [exists |-> exists, files |-> files, full |-> full]

\* Path::exists on target_dir.join(file name)
Exists(dir, name) ==
    /\ dir.exists
    /\ \/ name \in DOMAIN dir.files
       \/ name.kind = "numbered" /\ name.issue_key \in dir.full

\* next_available_export_path
next_available_export_path_FirstNumbered(dir, issue_key) ==
    IF ~Exists(dir, BaseName(issue_key)) THEN BaseName(issue_key)
    ELSE NumberedName(issue_key, 1)

next_available_export_path(dir, issue_key) ==
    IF ~Exists(dir, BaseName(issue_key)) THEN BaseName(issue_key)
    ELSE IF \A i \in 1..MaxExportIndex : Exists(dir, NumberedName(issue_key, i))
    THEN OverflowName(issue_key)
    ELSE NumberedName(issue_key,
             CHOOSE i \in 1..MaxExportIndex :
                 /\ ~Exists(dir, NumberedName(issue_key, i))
                 /\ \A j \in 1..(i - 1) : Exists(dir, NumberedName(issue_key, j)))

\* Where the environment makes a step of the export after the detail fetch
\* fail: create_dir_all, fs::write, open_db, insert_export_history.
ExportFails == {"none", "mkdir", "write", "open", "insert"}

\* An AppError::Io
Io(m) == [kind |-> "Io", msg |-> m]

\* struct ExportHistory, without the id and time the table gives it
ExportHistory(issue_key, export_path) ==
    [issue_key |-> issue_key, export_path |-> export_path]

\* issue_export_markdown, up to the request
issue_export_markdown_start ==
    \E arg \in KeyArgs, overwrite \in BOOLEAN, fail \in PreFails :
        Begin(Cmd("issue_export_markdown", Trim(arg), <<>>, overwrite), get_client(fail))

\* The rest of an export: what it returns, the issues table, the directory and
\* the exports table it leaves.
EndExport_RecordsAttempt(r, o, res, dir, history) ==
    /\ End(r, res)
    /\ issues' = o.tbl
    /\ cacheReads' = o.reads
    /\ cacheWrites' = o.writes
    /\ target_dir' = dir
    /\ exports' = IF Len(history) > Len(exports) THEN history
                  ELSE Append(exports, ExportHistory(cmd.arg, <<>>))
    /\ UNCHANGED <<space_url, keychain, api_key_cache, projects, api_key_configured,
                   export_dir>>

EndExport(r, o, res, dir, history) ==
    /\ End(r, res)
    /\ issues' = o.tbl
    /\ cacheReads' = o.reads
    /\ cacheWrites' = o.writes
    /\ target_dir' = dir
    /\ exports' = history
    /\ UNCHANGED <<space_url, keychain, api_key_cache, projects, api_key_configured,
                   export_dir>>

\* issue_export_markdown, from the return of get_with_retry on:
\* fetch_detail_online_first?, create_dir_all?, the choice of the path,
\* fs::write?, open_db?, insert_export_history?.
issue_export_markdown_finish ==
    /\ pc = "fetched"
    /\ cmd.op = "issue_export_markdown"
    /\ \E made \in {Dir(TRUE, IF target_dir.exists THEN target_dir.files ELSE EmptyTable,
                         IF target_dir.exists THEN target_dir.full ELSE {})} :
       \E path \in {IF cmd.overwrite THEN BaseName(cmd.arg)
                    ELSE next_available_export_path(made, cmd.arg)} :
       \E body \in BodiesFor(http, DetailBodies) :
       \E r \in {fetch_issue_by_key(http, body, clock)} :
       \E dbFail \in DbFailsFor(r, 1) :
       \E o \in {fetch_detail_online_first(r, cmd.arg, dbFail, clock)} :
           IF ~o.res.ok THEN EndExport(r, o, o.res, target_dir, exports)
           ELSE \E fail \in {f \in ExportFails : f = "mkdir" => ~target_dir.exists} :
                \E written \in {Dir(TRUE, Put(made.files, path, o.res.val.description_md),
                                    made.full)} :
                    CASE fail = "mkdir" ->
                             EndExport(r, o, Err(Io("create_dir_all")), target_dir, exports)
                      [] fail = "write" ->
                             EndExport(r, o, Err(Io("write")), made, exports)
                      [] fail \in {"open", "insert"} ->
                             EndExport(r, o, Err(Db("sqlite")), written, exports)
                      [] OTHER ->
                             EndExport(r, o, Ok(PathText(path)), written,
                                       Append(exports,
                                              ExportHistory(cmd.arg, PathText(path))))

----------------------------------------------------------------------------
(* Between commands *)

\* The caller has the result of the command; the next command may start.
Return ==
    /\ pc = "done"
    /\ pc' = "idle"
    /\ cmd' = Idle
    /\ remote' = NoResult
    /\ result' = NoResult
    /\ cacheReads' = 0
    /\ cacheWrites' = 0
    /\ sent' = 0
    /\ keychainLoads' = 0
    /\ resolved' = NoResult
    /\ UNCHANGED <<status, classified, retryVars, storeVars, clock, dataVars,
                   raceVars, mdVars>>

\* No command has been invoked yet.
InitIdle ==
    /\ cmd = Idle
    /\ remote = NoResult
    /\ result = NoResult
    /\ cacheReads = 0
    /\ cacheWrites = 0
    /\ clock = 0
    /\ sent = 0
    /\ keychainLoads = 0
    /\ resolved = NoResult

\* The parts of the model that only the checks of resolve_api_key under
\* concurrency and of the markup converter use.
InitNoThreads ==
    /\ lock = 0
    /\ resolvers = <<>>

InitNoText ==
    /\ md_in = <<>>
    /\ md_out = <<>>
    /\ md_again = <<>>

\* The application as it starts: AppState::new leaves the credential cache
\* empty; the cache tables are empty; a setup was saved earlier or not, and the
\* keychain entry is there or not.
Init ==
    /\ status = 200
    /\ classified = NoResult
    /\ pc = "idle"
    /\ RetryStart
    /\ InitIdle
    /\ issues = EmptyTable
    /\ space_url \in {None, Some(SpaceUrl)}
    /\ keychain \in {None, Some(ApiKey)}
    /\ api_key_cache = None
    /\ projects = EmptyTable
    /\ exports = <<>>
    /\ api_key_configured = (IF space_url.some THEN Some(Configured) ELSE None)
    /\ export_dir = (IF space_url.some THEN Some(TargetDir) ELSE None)
    /\ target_dir = Dir(FALSE, EmptyTable, {})
    /\ InitNoThreads
    /\ InitNoText

Next ==
    \/ issue_get_detail_start
    \/ issue_get_detail_finish
    \/ issues_search_by_key_start
    \/ issues_search_by_key_finish
    \/ issues_search_by_keyword_start
    \/ issues_search_by_keyword_finish
    \/ get_with_retry_iter
    \/ Return

Spec == Init /\ [][Next]_vars

----------------------------------------------------------------------------
(* Specification of all the commands together *)

NextAll ==
    \/ Next
    \/ projects_sync_start
    \/ projects_sync_finish
    \/ setup_save_start
    \/ verify_connection
    \/ setup_save_finish
    \/ auth_reset
    \/ issue_export_markdown_start
    \/ issue_export_markdown_finish

SpecAll == Init /\ [][NextAll]_vars

----------------------------------------------------------------------------
(* Specification of setup, reset and project sync: the commands that write
   the credential and the one that resolves it for the project listing *)

\* A keychain entry that holds only white space.
BlankKey == <<" ">>

InitSetup ==
    /\ status = 200
    /\ classified = NoResult
    /\ pc = "idle"
    /\ RetryStart
    /\ InitIdle
    /\ issues = EmptyTable
    /\ space_url \in {None, Some(SpaceUrl)}
    /\ keychain \in {None, Some(ApiKey), Some(BlankKey)}
    /\ api_key_cache = None
    /\ projects = EmptyTable
    /\ exports = <<>>
    /\ api_key_configured = (IF space_url.some THEN Some(Configured) ELSE None)
    /\ export_dir = (IF space_url.some THEN Some(TargetDir) ELSE None)
    /\ target_dir = Dir(FALSE, EmptyTable, {})
    /\ InitNoThreads
    /\ InitNoText

NextSetup ==
    \/ setup_save_start
    \/ verify_connection
    \/ setup_save_finish
    \/ auth_reset
    \/ projects_sync_start
    \/ get_with_retry_iter
    \/ projects_sync_finish
    \/ Return

SpecSetup == InitSetup /\ [][NextSetup]_vars

----------------------------------------------------------------------------
(* Specification of the export alone, over directories that hold files *)

\* The content of a file that was in the directory before.
OldFile == <<"o">>

\* A detail an earlier session left in the cache.
OldDetail ==
    to_detail([issue_key |-> K1, summary |-> <<"x">>,
               description |-> Some(<<"*", " ", "{", "{", "z">>), updated |-> 1], 0)

\* The directories an export may find.
ExportDirs ==
    {Dir(FALSE, EmptyTable, {}),
     Dir(TRUE, EmptyTable, {}),
     Dir(TRUE, [p \in {NumberedName(K1, 1)} |-> OldFile], {}),
     Dir(TRUE, [p \in {BaseName(K1)} |-> OldFile], {}),
     Dir(TRUE, [p \in {BaseName(K1), NumberedName(K1, 1), NumberedName(K1, 3)} |-> OldFile],
         {}),
     Dir(TRUE, [p \in {BaseName(K1)} |-> OldFile], {K1}),
     Dir(TRUE, [p \in {BaseName(K1), OverflowName(K1)} |-> OldFile], {K1})}

\* The export is the last command of a session: the directory holds what the
\* user and earlier exports left (with or without the record of the export
\* that wrote the base file), the cache what an earlier fetch left.
InitExport ==
    /\ status = 200
    /\ classified = NoResult
    /\ pc = "idle"
    /\ RetryStart
    /\ cmd = Idle
    /\ remote = NoResult
    /\ result = NoResult
    /\ cacheReads = 0
    /\ cacheWrites = 0
    /\ clock = MaxOps - 1
    /\ sent = 0
    /\ keychainLoads = 0
    /\ resolved = NoResult
    /\ issues \in {EmptyTable, upsert_issue_detail(EmptyTable, OldDetail, 0)}
    /\ space_url = Some(SpaceUrl)
    /\ keychain = Some(ApiKey)
    /\ api_key_cache = None
    /\ projects = EmptyTable
    /\ target_dir \in ExportDirs
    /\ exports \in {<<>>} \cup {<<ExportHistory(K1, PathText(BaseName(K1)))>> :
                                    n \in {BaseName(K1)} \cap DOMAIN target_dir.files}
    /\ api_key_configured = Some(Configured)
    /\ export_dir = Some(TargetDir)
    /\ InitNoThreads
    /\ InitNoText

NextExport ==
    \/ issue_export_markdown_start
    \/ get_with_retry_iter
    \/ issue_export_markdown_finish
    \/ Return

SpecExport == InitExport /\ [][NextExport]_vars

\* Commands in a behaviour that starts from a stored setup and resets it.
ResetOps == 3

\* A stored setup (space URL, credential, marker, export directory) with room
\* for ResetOps commands.
InitReset ==
    /\ status = 200
    /\ classified = NoResult
    /\ pc = "idle"
    /\ RetryStart
    /\ cmd = Idle
    /\ remote = NoResult
    /\ result = NoResult
    /\ cacheReads = 0
    /\ cacheWrites = 0
    /\ sent = 0
    /\ keychainLoads = 0
    /\ resolved = NoResult
    /\ clock = MaxOps - ResetOps
    /\ issues \in {EmptyTable, upsert_issue_detail(EmptyTable, OldDetail, 0)}
    /\ space_url = Some(SpaceUrl)
    /\ keychain = Some(ApiKey)
    /\ api_key_cache \in {None, Some(ApiKey)}
    /\ projects \in {EmptyTable,
                     upsert_projects(EmptyTable, <<Project(1, <<"a">>, <<"n">>, 0)>>, 1, 0)}
    /\ exports = <<>>
    /\ api_key_configured = Some(Configured)
    /\ export_dir = Some(TargetDir)
    /\ target_dir = Dir(FALSE, EmptyTable, {})
    /\ InitNoThreads
    /\ InitNoText

SpecReset == InitReset /\ [][NextSetup]_vars

----------------------------------------------------------------------------
(* Specification of resolve_api_key run by several threads at once: each
   lock(), the load from the keychain between them, and the store *)

\* Threads inside resolve_api_key at the same time.
MaxThreads == 2
Threads == 1..MaxThreads

\* A thread in resolve_api_key: where it is and the key (or error) it has.
Resolver(at, key) == [at |-> at, key |-> key]

otherVars == <<status, classified, pc, cmd, retryVars, remote, result, cacheReads,
               cacheWrites, issues, space_url, keychain, clock, sent, resolved,
               dataVars, mdVars>>

\* state.api_key_cache.lock(): the first (before the read) and the second
\* (before the write); a thread waits while another one holds the mutex.
resolve_lock(t) ==
    /\ resolvers[t].at \in {"start", "loaded"}
    /\ lock = 0
    /\ lock' = t
    /\ resolvers' = [resolvers EXCEPT ![t].at =
                         IF resolvers[t].at = "start" THEN "check" ELSE "store"]
    /\ UNCHANGED <<api_key_cache, keychainLoads, otherVars>>

\* if let Some(key) = cache.as_ref() { return pick_api_key(..) }: the guard is
\* dropped on return and at the end of the block alike.
resolve_check(t) ==
    /\ resolvers[t].at = "check"
    /\ lock = t
    /\ lock' = 0
    /\ resolvers' = [resolvers EXCEPT ![t] =
                         IF api_key_cache.some
                         THEN Resolver("done", pick_api_key(api_key_cache, None))
                         ELSE Resolver("load", NoResult)]
    /\ UNCHANGED <<api_key_cache, keychainLoads, otherVars>>

\* let loaded = keychain::load_api_key()?; let key = pick_api_key(None, loaded)?;
resolve_load(t) ==
    /\ resolvers[t].at = "load"
    /\ keychainLoads' = keychainLoads + 1
    /\ \E fail \in {"none", "keychain"} :
       \E loaded \in {load_api_key(fail)} :
           resolvers' = [resolvers EXCEPT ![t] =
                             IF ~loaded.ok THEN Resolver("done", Err(loaded.err))
                             ELSE IF pick_api_key(None, loaded.val).ok
                             THEN Resolver("loaded", pick_api_key(None, loaded.val))
                             ELSE Resolver("done", pick_api_key(None, loaded.val))]
    /\ UNCHANGED <<api_key_cache, lock, otherVars>>

\* *cache = Some(key.clone()); Ok(key)
resolve_store(t) ==
    /\ resolvers[t].at = "store"
    /\ lock = t
    /\ lock' = 0
    /\ api_key_cache' = Some(resolvers[t].key.val)
    /\ resolvers' = [resolvers EXCEPT ![t].at = "done"]
    /\ UNCHANGED <<keychainLoads, otherVars>>

InitResolve ==
    /\ status = 200
    /\ classified = NoResult
    /\ pc = "threads"
    /\ RetryStart
    /\ InitIdle
    /\ issues = EmptyTable
    /\ space_url = Some(SpaceUrl)
    /\ keychain \in {None, Some(ApiKey), Some(BlankKey)}
    /\ api_key_cache \in {None, Some(ApiKey)}
    /\ projects = EmptyTable
    /\ exports = <<>>
    /\ api_key_configured = Some(Configured)
    /\ export_dir = None
    /\ target_dir = Dir(FALSE, EmptyTable, {})
    /\ lock = 0
    /\ resolvers = [t \in Threads |-> Resolver("start", NoResult)]
    /\ InitNoText

NextResolve ==
    \E t \in Threads :
        \/ resolve_lock(t)
        \/ resolve_check(t)
        \/ resolve_load(t)
        \/ resolve_store(t)

SpecResolve == InitResolve /\ [][NextResolve]_vars

----------------------------------------------------------------------------
(* Specification of resolve_api_key on one thread while the other threads run
   the part of auth_reset or of setup_save that touches the credential *)

\* The credential a concurrent setup_save was invoked with (verified already).
NewKey == <<" ", "t">>

nonCredentialVars == <<status, classified, pc, cmd, retryVars, remote, result, cacheReads,
                       cacheWrites, issues, space_url, clock, sent, resolved, dataVars,
                       mdVars>>

\* auth_reset: keychain::delete_api_key()?
auth_reset_delete(t) ==
    /\ resolvers[t].at = "reset"
    /\ \E fail \in {"none", "keychain"} :
           IF fail = "keychain"
           THEN /\ resolvers' = [resolvers EXCEPT ![t] =
                                     Resolver("done", Err(Keychain("keyring")))]
                /\ keychain' = keychain
           ELSE /\ resolvers' = [resolvers EXCEPT ![t].at = "clear"]
                /\ keychain' = None
    /\ UNCHANGED <<api_key_cache, lock, keychainLoads, nonCredentialVars>>

\* auth_reset: if let Ok(mut cache) = state.api_key_cache.lock() { *cache = None; }
\* (the mutex is taken, the cache written and the guard dropped)
auth_reset_clear(t) ==
    /\ resolvers[t].at = "clear"
    /\ lock = 0
    /\ api_key_cache' = None
    /\ resolvers' = [resolvers EXCEPT ![t] = Resolver("done", Ok(<<>>))]
    /\ UNCHANGED <<keychain, lock, keychainLoads, nonCredentialVars>>

\* setup_save: keychain::save_api_key(&api_key)?
setup_save_store(t) ==
    /\ resolvers[t].at = "save"
    /\ \E fail \in {"none", "keychain"} :
           IF fail = "keychain"
           THEN /\ resolvers' = [resolvers EXCEPT ![t] =
                                     Resolver("done", Err(Keychain("keyring")))]
                /\ keychain' = keychain
           ELSE /\ resolvers' = [resolvers EXCEPT ![t].at = "cache"]
                /\ keychain' = Some(Trim(NewKey))
    /\ UNCHANGED <<api_key_cache, lock, keychainLoads, nonCredentialVars>>

\* setup_save: if let Ok(mut cache) = state.api_key_cache.lock() {
\*     *cache = Some(api_key.trim().to_string()); }
setup_save_cache(t) ==
    /\ resolvers[t].at = "cache"
    /\ lock = 0
    /\ api_key_cache' = Some(Trim(NewKey))
    /\ resolvers' = [resolvers EXCEPT ![t] = Resolver("done", Ok(<<>>))]
    /\ UNCHANGED <<keychain, lock, keychainLoads, nonCredentialVars>>

\* Thread 1 resolves the credential; each other thread resolves, resets or
\* saves it. The cache starts empty or with the stored credential (a stored
\* blank is never cached).
InitRace ==
    /\ status = 200
    /\ classified = NoResult
    /\ pc = "threads"
    /\ RetryStart
    /\ InitIdle
    /\ issues = EmptyTable
    /\ space_url = Some(SpaceUrl)
    /\ keychain \in {None, Some(ApiKey), Some(BlankKey)}
    /\ api_key_cache \in (IF keychain = Some(ApiKey) THEN {None, keychain} ELSE {None})
    /\ projects = EmptyTable
    /\ exports = <<>>
    /\ api_key_configured = Some(Configured)
    /\ export_dir = None
    /\ target_dir = Dir(FALSE, EmptyTable, {})
    /\ lock = 0
    /\ resolvers \in {f \in [Threads -> {Resolver(a, NoResult) : a \in {"start", "reset", "save"}}] :
                         f[1].at = "start"}
    /\ InitNoText

NextRace ==
    \E t \in Threads :
        \/ resolve_lock(t)
        \/ resolve_check(t)
        \/ resolve_load(t)
        \/ resolve_store(t)
        \/ auth_reset_delete(t)
        \/ auth_reset_clear(t)
        \/ setup_save_store(t)
        \/ setup_save_cache(t)

SpecRace == InitRace /\ [][NextRace]_vars

----------------------------------------------------------------------------
(* Specification of the status classifier alone *)

InitStores ==
    /\ issues = EmptyTable
    /\ space_url = None
    /\ keychain = None
    /\ api_key_cache = None
    /\ projects = EmptyTable
    /\ exports = <<>>
    /\ api_key_configured = None
    /\ export_dir = None
    /\ target_dir = Dir(FALSE, EmptyTable, {})

InitClassify ==
    /\ status \in 100..MaxStatus
    /\ classified = NoResult
    /\ pc = "classify"
    /\ RetryStart
    /\ InitIdle
    /\ InitStores
    /\ InitNoThreads
    /\ InitNoText

Classify ==
    /\ pc = "classify"
    /\ classified = NoResult
    /\ classified' = map_status_code(status)
    /\ UNCHANGED <<status, pc, cmd, retryVars, remote, result, cacheReads, cacheWrites,
                   storeVars, clock, sent, credVars, dataVars, raceVars, mdVars>>

NextClassify == Classify

SpecClassify == InitClassify /\ [][NextClassify]_vars

----------------------------------------------------------------------------
(* Specification of one get_with_retry call on its own *)

InitRetry ==
    /\ status = 200
    /\ classified = NoResult
    /\ pc = "retry"
    /\ RetryStart
    /\ InitIdle
    /\ InitStores
    /\ InitNoThreads
    /\ InitNoText

NextRetry == get_with_retry_iter

SpecRetry == InitRetry /\ [][NextRetry]_vars

----------------------------------------------------------------------------
(* Specification of the markup converter alone: backlog_to_markdown applied
   to a text, and again to its output *)

\* Pieces of Backlog wiki text the inputs are put together from.
Pieces ==
    {<<"h", "1", ".">>, <<" ">>, <<"\n">>, <<"*">>, <<"a">>, <<"{">>,
     <<"{", "{">>, <<"}", "}">>, <<"[", "[">>, <<"]", "]">>,
     <<"{", "c", "o", "l", "o", "r", ":", "r", "}">>,
     <<"{", "c", "o", "l", "o", "r", "}">>,
     <<"{", "q", "u", "o", "t", "e", "}">>}

\* Pieces in an input.
MaxPieces == 3

\* The inputs of the two tests of markdown.rs, and the second one's output.
SupportedExample ==
    <<"h", "1", ".", " ", "T", "i", "t", "l", "e", "\n", "h", "2", ".", " ", "S",
      "e", "c", "\n", "h", "3", ".", " ", "S", "u", "b", "\n", "*", " ", "i", "t",
      "e", "m", "\n", "{", "{", " ", "c", "o", "d", "e", " ", "}", "}">>

UnsupportedExample ==
    <<"{", "c", "o", "l", "o", "r", ":", "r", "e", "d", "}", "w", "a", "r", "n",
      "{", "c", "o", "l", "o", "r", "}", " ", "a", "n", "d", " ", "[", "[", "l",
      "i", "n", "k", " ", "t", "e", "x", "t", "]", "]">>

UnsupportedExampleOutput ==
    <<"w", "a", "r", "n", " ", "a", "n", "d", " ", "l", "i", "n", "k", " ", "t",
      "e", "x", "t">>

Examples == {SupportedExample, UnsupportedExample}

RECURSIVE Flatten(_)
Flatten(q) == IF q = <<>> THEN <<>> ELSE Head(q) \o Flatten(Tail(q))

Texts == {Flatten(q) : q \in UNION {[1..n -> Pieces] : n \in 0..MaxPieces}}

InitMarkdown ==
    /\ status = 200
    /\ classified = NoResult
    /\ pc = "convert"
    /\ RetryStart
    /\ InitIdle
    /\ InitStores
    /\ InitNoThreads
    /\ md_in \in Texts \cup Examples
    /\ md_out = <<>>
    /\ md_again = <<>>

\* md = backlog_to_markdown(input), and the same call on md
Convert ==
    /\ pc = "convert"
    /\ pc' = "converted"
    /\ md_out' = backlog_to_markdown(md_in)
    /\ md_again' = backlog_to_markdown(md_out')
    /\ UNCHANGED <<status, classified, cmd, retryVars, remote, result, cacheReads,
                   cacheWrites, storeVars, clock, sent, credVars, dataVars, raceVars,
                   md_in>>

NextMarkdown == Convert

SpecMarkdown == InitMarkdown /\ [][NextMarkdown]_vars

----------------------------------------------------------------------------
(* Claims about the status classifier, checked under SpecClassify *)

\* C6: map_status_code gives every status code exactly one outcome: 200 is
\* success, 401 auth-invalid, 403 forbidden, 404 not-found, 429 rate-limited,
\* every 5xx the server-error outcome (a Network error saying "server error"),
\* and every other code, other 2xx codes included, the unknown outcome.
C6_ClassifyMapping ==
    classified # NoResult =>
        /\ classified.ok = (status = 200)
        /\ status = 401 => classified = Err(AuthInvalid)
        /\ status = 403 => classified = Err(Forbidden)
        /\ status = 404 => classified = Err(NotFound)
        /\ status = 429 => classified = Err(RateLimit)
        /\ status \in 500..599 => classified = Err(Network("server error"))
        /\ status \notin ({200, 401, 403, 404, 429} \cup (500..599)) =>
               classified = Err(Unknown("unexpected status"))

C6_Witness ==
    /\ status = 599
    /\ classified = Err(Network("server error"))

----------------------------------------------------------------------------
(* Claims about get_with_retry, checked under SpecRetry *)

\* The attempt results the loop may retry: a 429 response, a connect failure,
\* a timeout.
IsTransientAttempt(r) ==
    \/ r.t = "resp" /\ r.status = 429
    \/ r.t = "err" /\ r.e \in {"connect", "timeout"}

\* C7: rate-limited responses on attempts 1 and 2 and a 200 on attempt 3 end in
\* success after exactly two sleeps, of 1 and then 2 seconds.
C7_TwoRateLimitsThenSuccess ==
    (Len(resps) >= 3 /\ SubSeq(resps, 1, 3) = <<Resp(429), Resp(429), Resp(200)>>) =>
        /\ pc = "fetched"
        /\ http.ok
        /\ Len(resps) = 3
        /\ sleeps = <<1, 2>>

C7_Witness ==
    /\ pc = "fetched"
    /\ resps = <<Resp(429), Resp(429), Resp(200)>>
    /\ http.ok

\* C8: three attempts that all fail with a connect failure or a timeout end in
\* a Network error after exactly three attempts: not in success, and not in the
\* "retry loop exhausted" error.
C8_TransientExhaustion ==
    (/\ Len(resps) >= 3
     /\ \A i \in 1..3 : resps[i].t = "err" /\ resps[i].e \in {"connect", "timeout"}) =>
        /\ pc = "fetched"
        /\ Len(resps) = 3
        /\ attempt = 3
        /\ ~http.ok
        /\ http.err.kind = "Network"
        /\ http.err # Unknown("retry loop exhausted")

C8_Witness ==
    /\ pc = "fetched"
    /\ resps = <<TErr("connect"), TErr("timeout"), TErr("timeout")>>
    /\ http = Err(Network("timeout"))

\* The outcome the claim expects for an attempt that is not retried.
C9_Expected(r) ==
    CASE r.t = "err" /\ r.e = "request" -> Network("request")
      [] r.t = "err" /\ r.e = "other" -> Unknown("other")
      [] r.t = "resp" /\ r.status = 401 -> AuthInvalid
      [] r.t = "resp" /\ r.status = 403 -> Forbidden
      [] r.t = "resp" /\ r.status = 404 -> NotFound
      [] r.t = "resp" /\ r.status \in 500..599 -> Network("server error")
      [] OTHER -> Unknown("unexpected status")

\* C9: an attempt that ends in anything but a 429 response, a connect failure
\* or a timeout is the last one: the call has returned, with that attempt's own
\* classification, and no sleep followed it.
C9_NonRetryableEndsLoop ==
    \A i \in 1..Len(resps) :
        ~IsTransientAttempt(resps[i]) =>
            /\ i = Len(resps)
            /\ pc = "fetched"
            /\ attempt = i
            /\ Len(sleeps) = i - 1
            /\ IF resps[i].t = "resp" /\ resps[i].status = 200
               THEN http.ok /\ http.val = resps[i]
               ELSE ~http.ok /\ http.err = C9_Expected(resps[i])

C9_Witness ==
    /\ pc = "fetched"
    /\ resps = <<Resp(429), Resp(503)>>
    /\ sleeps = <<1>>
    /\ http = Err(Network("server error"))

\* 2^n
RECURSIVE Pow2(_)
Pow2(n) == IF n = 0 THEN 1 ELSE 2 * Pow2(n - 1)

\* C10: whatever the attempts produce, there are at most 3 of them and the call
\* has returned after the third; a sleep happens only between two attempts
\* (one fewer sleeps than attempts once the call has returned, so at most 2);
\* and the k-th sleep lasts 2^(k-1) seconds whether a 429 or a transport
\* failure caused it.
C10_BoundedBackoff ==
    /\ Len(resps) <= 3
    /\ pc = "retry" => (Len(resps) < 3 /\ Len(sleeps) = Len(resps))
    /\ pc = "fetched" => Len(sleeps) = Len(resps) - 1
    /\ Len(sleeps) <= 2
    /\ \A k \in 1..Len(sleeps) :
           /\ sleeps[k] = Pow2(k - 1)
           /\ IsTransientAttempt(resps[k])

C10_Witness ==
    /\ pc = "fetched"
    /\ resps = <<Resp(429), TErr("timeout"), TErr("connect")>>
    /\ sleeps = <<1, 2>>

\* C11: the statement after the loop, which returns the "retry loop exhausted"
\* unknown error, is never reached: while the call runs the loop variable is
\* within 1..=max_attempts, and the call returns from inside the loop, on the
\* third attempt at the latest, with the outcome of its last attempt.
C11_ExhaustedUnreachable ==
    /\ attempt \in 1..max_attempts
    /\ http.err # Unknown("retry loop exhausted")
    /\ pc = "fetched" =>
           /\ Len(resps) \in 1..max_attempts
           /\ Len(resps) = attempt
           /\ http.ok = AttemptOutcome(resps[Len(resps)]).ok
           /\ http.err = AttemptOutcome(resps[Len(resps)]).err

C11_Witness ==
    /\ pc = "fetched"
    /\ resps = <<Resp(429), Resp(429), Resp(429)>>
    /\ attempt = max_attempts
    /\ http.err = RateLimit

----------------------------------------------------------------------------
(* Claims about credential resolution, setup and project sync, checked under
   SpecSetup *)

\* A command starts in this step and calls resolve_api_key.
Resolves == pc = "idle" /\ pc' # "idle" /\ resolved'.err.kind # "pending"

\* The credential store holds a credential that is not blank.
StoreHoldsKey == keychain.some /\ Trim(keychain.v) # <<>>

\* C12: commands run one after the other. A resolution that finds a credential
\* in the cache returns it and makes no store query; one that finds the cache
\* empty queries the store exactly once and, where the store answers with a
\* non-blank credential, returns it and leaves it in the cache; a blank or
\* missing value is never returned (the resolution fails, the cache stays
\* empty); and a filled cache is emptied by auth_reset only, so every later
\* resolution is served from it.
C12_Step ==
    /\ Resolves =>
           /\ api_key_cache.some =>
                  /\ keychainLoads' = 0
                  /\ resolved'.ok
                  /\ resolved'.val = api_key_cache.v
                  /\ api_key_cache' = api_key_cache
           /\ (~api_key_cache.some /\ StoreHoldsKey) =>
                  /\ keychainLoads' = 1
                  /\ IF resolved'.ok
                     THEN /\ resolved'.val = Trim(keychain.v)
                          /\ api_key_cache' = Some(resolved'.val)
                     ELSE /\ resolved'.err = Keychain("keyring")
                          /\ api_key_cache' = None
           /\ (~api_key_cache.some /\ ~StoreHoldsKey) =>
                  /\ keychainLoads' = 1
                  /\ ~resolved'.ok
                  /\ api_key_cache' = None
           /\ resolved'.ok => Trim(resolved'.val) # <<>>
    /\ resolved'.err.kind = "pending" => keychainLoads' = 0
    /\ (api_key_cache.some /\ ~api_key_cache'.some) => cmd'.op = "auth_reset"
    /\ api_key_cache'.some => Trim(api_key_cache'.v) # <<>>

\* C12: every step of every command resolves the credential as C12_Step says
\* (the cache is used when set, the store is queried at most once otherwise).
C12_CredentialResolution == [][C12_Step]_vars

\* A second project sync is served from the cache the first one filled.
C12_Witness ==
    /\ cmd.op = "projects_sync"
    /\ clock = 2
    /\ resolved = Ok(ApiKey)
    /\ keychainLoads = 0
    /\ api_key_cache = Some(ApiKey)

\* The threads reading or writing the cached value hold the mutex, so no two
\* of them do at once.
MutuallyExclusive ==
    /\ \A t \in Threads : resolvers[t].at \in {"check", "store"} => lock = t
    /\ \A t, u \in Threads :
           (t # u /\ resolvers[t].at \in {"check", "store"}) =>
               resolvers[u].at \notin {"check", "store"}

\* C13 as stated, checked under SpecResolve: with the store holding a
\* credential and answering every query, the accesses to the cached value
\* exclude each other and the store is loaded at most once in total, however
\* many threads resolve at once.
C13_AsStated ==
    /\ MutuallyExclusive
    /\ (StoreHoldsKey /\ \A t \in Threads : resolvers[t].key.err.kind # "Keychain") =>
           keychainLoads <= 1

\* C14 as stated, checked under SpecSetup: whichever remote operation a command
\* runs (verify_connection for setup_save, fetch_projects for projects_sync),
\* a first attempt that is rate-limited or fails to connect or times out is
\* followed by a sleep of 1 second and a second attempt.
C14_AsStated ==
    (pc = "fetched" /\ IsTransientAttempt(resps[1])) =>
        /\ Len(resps) >= 2
        /\ sleeps # <<>>
        /\ sleeps[1] = 1

----------------------------------------------------------------------------
(* Claims about all the commands, checked under SpecAll *)

\* The commands that make their client with get_client.
ClientCommands ==
    {"projects_sync", "issues_search_by_key", "issues_search_by_keyword",
     "issue_get_detail", "issue_export_markdown"}

\* Neither the cache nor the store has a credential that is not blank.
NoCredential == ~api_key_cache.some /\ ~StoreHoldsKey

\* C15: a setup_save whose space URL or API key is empty after trimming has
\* returned the validation error of BacklogClient::new without a send(); a
\* command that makes its client from the stored setup has returned an error
\* without a send() when no space URL is stored or no non-blank credential is
\* to be had; and so a request is in flight only for a client that was made.
C15_NoRequestWithoutClient ==
    /\ (cmd.op = "setup_save" /\ Trim(cmd.arg) = <<>>) =>
           /\ pc = "done"
           /\ sent = 0
           /\ ~result.ok
           /\ result.err = Validation("space URL is required")
    /\ (cmd.op = "setup_save" /\ Trim(cmd.arg) # <<>> /\ Trim(cmd.api_key) = <<>>) =>
           /\ pc = "done"
           /\ sent = 0
           /\ ~result.ok
           /\ result.err = Validation("API key is required")
    /\ (cmd.op \in ClientCommands /\ (~space_url.some \/ NoCredential)) =>
           /\ pc = "done"
           /\ sent = 0
           /\ ~result.ok
           /\ result.err.kind \in {"Validation", "Keychain", "Db"}
    /\ (pc \in {"retry", "verify", "fetched"} \/ sent > 0) =>
           IF cmd.op = "setup_save"
           THEN Trim(cmd.arg) # <<>> /\ Trim(cmd.api_key) # <<>>
           ELSE /\ space_url.some
                /\ Trim(space_url.v) # <<>>
                /\ resolved.ok
                /\ Trim(resolved.val) # <<>>

C15_Witness ==
    /\ cmd.op = "setup_save"
    /\ Trim(cmd.arg) # <<>>
    /\ cmd.api_key = <<" ">>
    /\ pc = "done"
    /\ sent = 0
    /\ result.err = Validation("API key is required")

\* A project sync returns in this step with a list.
SyncSucceeds ==
    /\ pc = "fetched"
    /\ cmd.op = "projects_sync"
    /\ pc' = "done"
    /\ result'.ok

\* C19: no step removes a project from the cache, whatever the command (a sync
\* whose remote list lacks a cached project and auth_reset included); a
\* successful sync leaves every fetched project in the cache with the fetched
\* key and name, leaves the other rows as they were, and returns all cached
\* projects, each once, ordered by project key.
C19_Step ==
    /\ DOMAIN projects \subseteq DOMAIN projects'
    /\ SyncSucceeds =>
           /\ \A i \in 1..Len(remote'.val) :
                  /\ remote'.val[i].id \in DOMAIN projects'
                  /\ projects'[remote'.val[i].id].project_key = remote'.val[i].project_key
                  /\ projects'[remote'.val[i].id].name = remote'.val[i].name
           /\ \A id \in DOMAIN projects :
                  (\A i \in 1..Len(remote'.val) : remote'.val[i].id # id) =>
                      projects'[id] = projects[id]
           /\ Len(result'.val) = Cardinality(DOMAIN projects')
           /\ {result'.val[i].id : i \in 1..Len(result'.val)} = DOMAIN projects'
           /\ \A i \in 1..Len(result'.val) :
                  /\ result'.val[i].project_key = projects'[result'.val[i].id].project_key
                  /\ result'.val[i].name = projects'[result'.val[i].id].name
           /\ \A i, j \in 1..Len(result'.val) :
                  i < j => TextLeq(result'.val[i].project_key, result'.val[j].project_key)
    /\ cmd'.op # "projects_sync" => projects' = projects

\* C19: every step keeps every project id that was in the cache, and a sync
\* that succeeds returns the whole cache ordered by project key.
C19_ProjectsNeverDeleted == [][C19_Step]_vars

\* The second sync lists project 2 only; project 1 of the first is still
\* cached and returned, ahead of it.
C19_Witness ==
    /\ pc = "done"
    /\ cmd.op = "projects_sync"
    /\ result.ok
    /\ remote.ok
    /\ Len(remote.val) = 1
    /\ remote.val[1].id = 2
    /\ Len(result.val) = 2
    /\ result.val[1].id = 1
    /\ result.val[2].id = 2

----------------------------------------------------------------------------
(* Claims about the export path, checked under SpecExport *)

\* An export returns in this step with the path it wrote.
ExportSucceeds ==
    /\ pc = "fetched"
    /\ cmd.op = "issue_export_markdown"
    /\ pc' = "done"
    /\ result'.ok

\* The numbered candidates of the issue key that are not in the directory.
FreeIndexes(dir, issue_key) ==
    {i \in 1..MaxExportIndex : ~Exists(dir, NumberedName(issue_key, i))}

\* C17: the path an export returns (and writes) is <key>.md when overwrite is
\* set or that file does not exist; otherwise <key>(i).md for the smallest i in
\* 1..9999 whose file does not exist; <key>(overflow).md only when all of them
\* exist. A non-overwriting export thus picks an existing path only when every
\* numbered candidate is taken.
C17_Step ==
    ExportSucceeds =>
        LET free == FreeIndexes(target_dir, cmd.arg)
            name == IF cmd.overwrite \/ ~Exists(target_dir, BaseName(cmd.arg))
                    THEN BaseName(cmd.arg)
                    ELSE IF free = {} THEN OverflowName(cmd.arg)
                    ELSE NumberedName(cmd.arg, CHOOSE i \in free : \A j \in free : i <= j)
        IN  /\ result'.val = PathText(name)
            /\ name \in DOMAIN target_dir'.files
            /\ DOMAIN target_dir'.files = DOMAIN target_dir.files \cup {name}
            /\ (~cmd.overwrite /\ Exists(target_dir, name)) =>
                   /\ free = {}
                   /\ name = OverflowName(cmd.arg)

\* C17: every export that succeeds selected its path as C17_Step says
\* (<key>.md, else the smallest free <key>(i).md, else the overflow name).
C17_ExportPathSelection == [][C17_Step]_vars

\* With k1.md and all of k1(1).md .. k1(9999).md there, the export of k1 goes
\* to the overflow name.
C17_Witness ==
    /\ pc = "done"
    /\ cmd.op = "issue_export_markdown"
    /\ ~cmd.overwrite
    /\ result.ok
    /\ result.val = <<"d", "/", "k", "1", "(", "o", "v", "e", "r", "f", "l", "o", "w", ")",
                      ".", "m", "d">>
    /\ OverflowName(K1) \in DOMAIN target_dir.files

----------------------------------------------------------------------------
(* Claims about the online-first commands, checked under Spec *)

Orchestrated == {"issue_get_detail", "issues_search_by_key", "issues_search_by_keyword"}

\* An orchestrated command has returned after its remote call ended.
RemoteEnded ==
    /\ pc = "done"
    /\ cmd.op \in Orchestrated
    /\ remote # NoResult

RemoteFailed == RemoteEnded /\ ~remote.ok

\* The command returned the error of a cache statement that failed.
StorageFailed == ~result.ok /\ result.err.kind = "Db"

\* The cache holds a record matching the argument of the command: the row of
\* that key for the detail, a row the local search selects for the searches.
CacheMatches ==
    IF cmd.op = "issue_get_detail"
    THEN cmd.arg \in DOMAIN issues
    ELSE \E k \in DOMAIN issues :
             \/ LikeMatch(<<"%">> \o cmd.arg \o <<"%">>, k)
             \/ LikeMatch(<<"%">> \o cmd.arg \o <<"%">>, issues[k].summary)

\* The result is the success that hands out what the cache holds for the
\* argument of the command.
ServedFromCache ==
    /\ result.ok
    /\ IF cmd.op = "issue_get_detail"
       THEN /\ result.val.issue_key = cmd.arg
            /\ result.val.summary = issues[cmd.arg].summary
            /\ result.val.updated_at = issues[cmd.arg].updated_at
            /\ result.val.description_raw = Coalesce(issues[cmd.arg].description_raw)
            /\ result.val.description_md = Coalesce(issues[cmd.arg].description_md)
       ELSE /\ Len(result.val) >= 1
            /\ \A i \in 1..Len(result.val) :
                   /\ result.val[i].issue_key \in DOMAIN issues
                   /\ result.val[i].summary = issues[result.val[i].issue_key].summary
                   /\ result.val[i].updated_at = issues[result.val[i].issue_key].updated_at

\* The failures the claims call transient: a connect or timeout transport
\* failure, a rate-limit response.
ConnectOrTimeout(e) == e \in {Network("connect"), Network("timeout")}
ClaimTransient(e) == ConnectOrTimeout(e) \/ e = RateLimit

\* C1 as stated: a remote failure other than connect/timeout/rate-limit (a 5xx
\* and a non-transient transport error included) is returned without the cache
\* being read.
C1_AsStated ==
    (RemoteFailed /\ ~ClaimTransient(remote.err)) =>
        /\ cacheReads = 0
        /\ ~result.ok
        /\ result.err = remote.err

\* C1, amended: the cache is read only after a remote failure of kind Network
\* (a connect, timeout or other request-level transport failure, a timeout while
\* the body is read, a 5xx response) or RateLimit; an auth-invalid, forbidden,
\* not-found, validation or unknown failure (an unexpected status, any other
\* transport or decode error) is returned as it is, the cache neither read nor
\* written.
C1_FallbackOnlyOnNetworkOrRateLimit ==
    /\ cacheReads > 0 =>
           /\ RemoteFailed
           /\ remote.err \in {RateLimit, Network("connect"), Network("timeout"),
                              Network("request"), Network("server error")}
    /\ (RemoteFailed /\ remote.err.kind \in {"AuthInvalid", "Forbidden", "NotFound",
                                             "Validation", "Unknown"}) =>
           /\ cacheReads = 0
           /\ cacheWrites = 0
           /\ ~result.ok
           /\ result.err = remote.err

C1_Witness ==
    /\ RemoteFailed
    /\ remote.err = Network("server error")
    /\ cacheReads = 1
    /\ CacheMatches
    /\ result.ok

\* C2: after a remote call that ended in a connect or timeout failure, with a
\* matching record in the cache (and the cache read answered), the command
\* returns the cached record(s) as a success.
C2_TransientFailureServedFromCache ==
    (RemoteFailed /\ ConnectOrTimeout(remote.err) /\ CacheMatches /\ ~StorageFailed) =>
        /\ ServedFromCache
        /\ cacheReads = 1

C2_Witness ==
    /\ RemoteFailed
    /\ remote.err = Network("connect")
    /\ cmd.op = "issue_get_detail"
    /\ CacheMatches
    /\ ServedFromCache

\* C3: after a connect, timeout or rate-limit failure with nothing matching in
\* the cache (and the cache read answered), the command returns the remote
\* error itself, never a success.
C3_FallbackMissReturnsRemoteError ==
    (RemoteFailed /\ ClaimTransient(remote.err) /\ ~CacheMatches /\ ~StorageFailed) =>
        /\ ~result.ok
        /\ result.err = remote.err
        /\ cacheReads = 1

C3_Witness ==
    /\ RemoteFailed
    /\ remote.err = RateLimit
    /\ cmd.op = "issues_search_by_keyword"
    /\ DOMAIN issues # {}
    /\ ~CacheMatches
    /\ result = Err(RateLimit)

\* C4: after a remote call that ended in auth-invalid the command returns the
\* auth error, matching data in the cache or not, and issues no read and no
\* write on the cache.
C4_AuthInvalidBypassesCache ==
    (RemoteFailed /\ remote.err = AuthInvalid) =>
        /\ ~result.ok
        /\ result.err = AuthInvalid
        /\ cacheReads = 0
        /\ cacheWrites = 0

C4_Witness ==
    /\ RemoteFailed
    /\ remote.err = AuthInvalid
    /\ CacheMatches
    /\ result = Err(AuthInvalid)

\* The cache holds the detail d as fetched.
CacheHoldsDetail(d) ==
    /\ d.issue_key \in DOMAIN issues
    /\ issues[d.issue_key].summary = d.summary
    /\ issues[d.issue_key].updated_at = d.updated_at
    /\ issues[d.issue_key].description_raw = Some(d.description_raw)
    /\ issues[d.issue_key].description_md = Some(d.description_md)

\* The cache holds the summary sm.
CacheHoldsSummary(sm) ==
    /\ sm.issue_key \in DOMAIN issues
    /\ issues[sm.issue_key].summary = sm.summary
    /\ issues[sm.issue_key].updated_at = sm.updated_at

\* C5: once the remote call has succeeded, the command either returns the
\* fetched records, which the cache then holds (written by one upsert each),
\* or returns the error of the cache write that failed; the returned records
\* of any success are in the cache.
C5_WriteThrough ==
    /\ (RemoteEnded /\ remote.ok) =>
           IF result.ok
           THEN CASE cmd.op = "issue_get_detail" ->
                         /\ result.val = remote.val
                         /\ CacheHoldsDetail(remote.val)
                         /\ cacheWrites = 1
                  [] cmd.op = "issues_search_by_key" ->
                         /\ result.val = <<IssueSummary(remote.val.issue_key,
                                                        remote.val.summary,
                                                        remote.val.updated_at)>>
                         /\ CacheHoldsDetail(remote.val)
                         /\ cacheWrites = 1
                  [] cmd.op = "issues_search_by_keyword" ->
                         /\ result.val = remote.val
                         /\ \A i \in 1..Len(remote.val) : CacheHoldsSummary(remote.val[i])
                         /\ cacheWrites = Len(remote.val)
           ELSE StorageFailed
    /\ (RemoteEnded /\ result.ok) =>
           IF cmd.op = "issue_get_detail"
           THEN CacheHoldsSummary(result.val)
           ELSE \A i \in 1..Len(result.val) : CacheHoldsSummary(result.val[i])

C5_Witness ==
    /\ RemoteEnded
    /\ remote.ok
    /\ result.ok
    /\ cmd.op = "issue_get_detail"
    /\ result.val.description_raw = <<"*", " ", "{", "{", "z">>
    /\ result.val.description_md = <<"-", " ", "z">>
    /\ CacheHoldsDetail(result.val)

\* C16: every row of the issues table holds the markdown of its raw text (a row
\* that a keyword search made holds neither, and is read as two empty texts),
\* the two columns are set together or not at all, and every IssueDetail a
\* command returns, fetched or from the cache, has description_md =
\* backlog_to_markdown(description_raw).
C16_MarkdownDerivedFromRaw ==
    /\ \A k \in DOMAIN issues :
           /\ issues[k].description_raw.some = issues[k].description_md.some
           /\ Coalesce(issues[k].description_md) =
                  backlog_to_markdown(Coalesce(issues[k].description_raw))
    /\ (pc = "done" /\ cmd.op = "issue_get_detail" /\ result.ok) =>
           result.val.description_md = backlog_to_markdown(result.val.description_raw)

\* A detail served from the cache after a failed fetch.
C16_Witness ==
    /\ RemoteFailed
    /\ cmd.op = "issue_get_detail"
    /\ result.ok
    /\ result.val.description_raw = <<"*", " ", "{", "{", "z">>
    /\ result.val.description_md = <<"-", " ", "z">>
    /\ issues[cmd.arg].description_md = Some(<<"-", " ", "z">>)

\* C18 as stated: a search by key never returns more than one record.
C18_AsStated ==
    (pc = "done" /\ cmd.op = "issues_search_by_key" /\ result.ok) =>
        Len(result.val) <= 1

\* C18, amended: a search by key returns one record when the remote answered;
\* when it falls back to the cache it returns every cached record whose key or
\* summary contains the key text, each once, most recently updated first.
C18_FallbackReturnsAllMatches ==
    (pc = "done" /\ cmd.op = "issues_search_by_key" /\ result.ok) =>
        IF remote.ok THEN Len(result.val) = 1
        ELSE /\ {result.val[i].issue_key : i \in 1..Len(result.val)} =
                    LocalMatches(issues, cmd.arg)
             /\ Len(result.val) = Cardinality(LocalMatches(issues, cmd.arg))
             /\ Len(result.val) >= 1
             /\ \A i, j \in 1..Len(result.val) :
                    i < j => result.val[i].updated_at >= result.val[j].updated_at

C18_Witness ==
    /\ pc = "done"
    /\ cmd.op = "issues_search_by_key"
    /\ RemoteFailed
    /\ result.ok
    /\ Len(result.val) = 2
    /\ result.val[1].issue_key # result.val[2].issue_key

----------------------------------------------------------------------------
(* Claims about the markup converter, checked under SpecMarkdown *)

\* A wiki token is in the text: a heading or bullet marker at the start of a
\* line, a double brace or double bracket, a color or quote marker.
HasWikiToken(t) ==
    \E i \in 1..Len(t) :
        \/ /\ AtLineStart(t, i)
           /\ \/ StartsAt(t, i, <<"h", "1", ".">>)
              \/ StartsAt(t, i, <<"h", "2", ".">>)
              \/ StartsAt(t, i, <<"h", "3", ".">>)
              \/ StartsAt(t, i, <<"*">>)
        \/ StartsAt(t, i, <<"{", "{">>)
        \/ StartsAt(t, i, <<"}", "}">>)
        \/ StartsAt(t, i, <<"[", "[">>)
        \/ StartsAt(t, i, <<"]", "]">>)
        \/ StartsAt(t, i, <<"{", "c", "o", "l", "o", "r">>)
        \/ StartsAt(t, i, <<"{", "q", "u", "o", "t", "e", "}">>)

\* A pattern of the converter matches somewhere in the text.
RuleMatches(t) ==
    \E k \in 1..Len(Rules), i \in 1..Len(t) : MatchAt(Rules[k], t, i).len > 0

\* C20: where the output of the first conversion holds no wiki token (and so
\* nothing a pattern matches), converting it again gives the same text.
C20_IdempotentOnConverted ==
    pc = "converted" =>
        /\ ~HasWikiToken(md_out) => ~RuleMatches(md_out)
        /\ ~RuleMatches(md_out) => md_again = md_out

C20_Witness ==
    /\ pc = "converted"
    /\ md_in = <<"[", "[", "a", "]", "]">>
    /\ md_out = <<"a">>
    /\ ~HasWikiToken(md_out)
    /\ md_again = md_out

\* The text holds the literal lit somewhere.
Holds(t, lit) == \E i \in 1..Len(t) : StartsAt(t, i, lit)

\* C21 as stated: whatever the input, the output holds no double brace, no
\* color marker (opening or closing), no quote marker and no [[text]] span,
\* and the example with the color span and the link converts to its bare text.
C21_AsStated ==
    pc = "converted" =>
        /\ ~Holds(md_out, <<"{", "{">>)
        /\ ~Holds(md_out, <<"}", "}">>)
        /\ ~Holds(md_out, <<"{", "c", "o", "l", "o", "r", "}">>)
        /\ ~Holds(md_out, <<"{", "q", "u", "o", "t", "e", "}">>)
        /\ \A i \in 1..Len(md_out) :
               ColorOpen(md_out, i).len = 0 /\ BracketLink(md_out, i).len = 0
        /\ md_in = UnsupportedExample => md_out = UnsupportedExampleOutput

\* The line feeds in a text.
LineFeeds(t) == Cardinality({i \in 1..Len(t) : t[i] = "\n"})

\* C22 as stated, for the first line of the input: a text that starts with a
\* heading marker is converted to one that starts with the markdown heading,
\* and a text that starts with the bullet marker to one that starts with "- ";
\* and a text without braces and brackets, in which only markers at the start
\* of a line are matched, keeps its lines.
C22_AsStated ==
    pc = "converted" =>
        /\ (~Holds(md_in, <<"{">>) /\ ~Holds(md_in, <<"[">>))
               => LineFeeds(md_out) = LineFeeds(md_in)
        /\ StartsAt(md_in, 1, <<"h", "1", ".">>) => StartsAt(md_out, 1, <<"#", " ">>)
        /\ StartsAt(md_in, 1, <<"h", "2", ".">>) => StartsAt(md_out, 1, <<"#", "#", " ">>)
        /\ StartsAt(md_in, 1, <<"h", "3", ".">>)
               => StartsAt(md_out, 1, <<"#", "#", "#", " ">>)
        /\ StartsAt(md_in, 1, <<"*">>) => StartsAt(md_out, 1, <<"-", " ">>)

----------------------------------------------------------------------------
(* Claims about the export history, checked under SpecExport *)

\* An export returns after its request.
ExportEnds == pc = "fetched" /\ cmd.op = "issue_export_markdown" /\ pc' = "done"

\* The detail fetch of the export that ends ended in an error: a remote failure
\* that does not qualify for the fallback, or one that does with no row cached.
DetailFetchFailed ==
    /\ ExportEnds
    /\ ~remote'.ok
    /\ ~FallbackEligible(remote'.err) \/ cmd.arg \notin DOMAIN issues

\* The markdown the export that ends had to write.
DetailMarkdown ==
    IF remote'.ok THEN remote'.val.description_md
    ELSE get_issue_detail_local(issues, cmd.arg).v.description_md

C23_Step ==
    /\ Len(exports') >= Len(exports)
    /\ SubSeq(exports', 1, Len(exports)) = exports
    /\ exports' # exports =>
           /\ ExportEnds
           /\ result'.ok
           /\ Len(exports') = Len(exports) + 1
           /\ exports'[Len(exports')].issue_key = cmd.arg
           /\ exports'[Len(exports')].export_path = result'.val
           /\ \E name \in DOMAIN target_dir'.files :
                  /\ PathText(name) = result'.val
                  /\ target_dir'.files[name] = DetailMarkdown
    /\ DetailFetchFailed =>
           /\ target_dir' = target_dir
           /\ exports' = exports
           /\ ~result'.ok
    /\ (pc = "idle" /\ cmd'.op = "issue_export_markdown" /\ pc' = "done") =>
           target_dir' = target_dir

\* C23: every step leaves the export records there are as they are; a record
\* is added only by an export that returns Ok, after the file of that path was
\* written with the markdown of the detail; an export whose detail fetch ends
\* in an error writes no file and adds no record.
C23_ExportRecordAfterWrite == [][C23_Step]_vars

\* A second export has added its record after the record of the first, the
\* file of each being in the directory.
C23_Witness ==
    /\ pc = "done"
    /\ cmd.op = "issue_export_markdown"
    /\ result.ok
    /\ Len(exports) = 2
    /\ exports[2].export_path = result.val
    /\ \A i \in 1..2 : \E name \in DOMAIN target_dir.files :
           PathText(name) = exports[i].export_path

----------------------------------------------------------------------------
(* Claims about setup_save and auth_reset, checked under SpecSetup *)

\* What setup_save stores: the credential store, the cached credential, the
\* saved space URL and the configured marker.
SetupStores == <<keychain, api_key_cache, space_url, api_key_configured>>

\* setup_save returns without a verified connection: BacklogClient::new failed,
\* or the one request of verify_connection was answered by anything but 200.
ReturnsUnverified ==
    /\ cmd'.op = "setup_save"
    /\ pc' = "done"
    /\ pc = "idle" \/ (pc = "fetched" /\ resps[1] # Resp(200))

C24_Step ==
    /\ ReturnsUnverified => (SetupStores' = SetupStores /\ ~result'.ok)
    /\ (cmd'.op = "setup_save" /\ pc' # "done") => SetupStores' = SetupStores
    /\ (cmd'.op = "setup_save" /\ (keychain' # keychain \/ api_key_cache' # api_key_cache)) =>
           /\ pc = "fetched"
           /\ resps[1] = Resp(200)
           /\ keychain' = Some(Trim(cmd.api_key))
           /\ api_key_cache' = keychain'
    /\ (cmd'.op = "setup_save" /\ (space_url' # space_url
                                    \/ api_key_configured' # api_key_configured)) =>
           /\ resps[1] = Resp(200)
           /\ keychain' = Some(Trim(cmd.api_key))
           /\ api_key_cache' = keychain'

\* C24: a setup_save that returns because its client could not be made or its
\* verification was not answered by 200 leaves the credential store, the
\* cached credential, the space URL and the marker as they were; no step of
\* setup_save sets the cache without the store holding the same trimmed
\* credential, and nothing else is stored before the two.
C24_SetupStoresOnlyVerified == [][C24_Step]_vars

\* A setup_save over a stored setup was refused by the remote and has left the
\* stored setup as it was.
C24_Witness ==
    /\ pc = "done"
    /\ cmd.op = "setup_save"
    /\ result = Err(AuthInvalid)
    /\ keychain = Some(ApiKey)
    /\ api_key_cache = None
    /\ space_url = Some(SpaceUrl)
    /\ api_key_configured = Some(Configured)

----------------------------------------------------------------------------
(* Claims about auth_reset, checked under SpecReset *)

\* A behaviour of SpecReset starts with the marker and the export directory
\* stored; only an auth_reset that returns Ok deletes the export directory,
\* nothing stores it again, and only a setup_save that returns Ok stores the
\* marker. So both are absent exactly when an auth_reset has returned Ok and
\* no setup_save has returned Ok since.
ResetInForce == ~api_key_configured.some /\ ~export_dir.some

C25_Step ==
    /\ (pc = "idle" /\ cmd'.op = "auth_reset") =>
           /\ issues' = issues
           /\ projects' = projects
           /\ result'.ok =>
                  /\ ~keychain'.some
                  /\ ~api_key_cache'.some
                  /\ ~space_url'.some
                  /\ ResetInForce'
    /\ (ResetInForce /\ pc = "idle" /\ cmd'.op \in ClientCommands) =>
           /\ pc' = "done"
           /\ ~result'.ok
           /\ sent' = 0
           /\ issues' = issues
           /\ projects' = projects

\* C25 as stated: an auth_reset that returns Ok leaves no credential in the
\* store or the cache and no space URL, export directory or marker, and
\* touches neither projects nor issues; and from then on, until a setup_save
\* returns Ok, every command that needs the client returns an error at once,
\* with no request sent.
C25_AsStated == [][C25_Step]_vars

----------------------------------------------------------------------------
(* Claims about the cached credential under concurrency, checked under SpecRace *)

\* Every invocation has returned.
AllDone == \A t \in Threads : resolvers[t].at = "done"

\* C26 as stated: once a resolution and the auth_reset or setup_save running
\* beside it have all returned, the cache is empty or holds the credential
\* that is in the credential store.
C26_AsStated ==
    AllDone => (~api_key_cache.some \/ api_key_cache = keychain)

----------------------------------------------------------------------------
(* Claims about the rows the cache fallback serves, checked under Spec *)

\* The command that ends returns a detail out of the cache: its remote call
\* failed and it returns Ok.
DetailFromCache ==
    /\ pc = "fetched"
    /\ pc' = "done"
    /\ cmd.op \in {"issue_get_detail", "issue_export_markdown"}
    /\ ~remote'.ok
    /\ result'.ok

C27_Step ==
    /\ DetailFromCache =>
           /\ cmd.arg \in DOMAIN issues
           /\ issues[cmd.arg].description_raw.some
           /\ issues[cmd.arg].description_md.some
           /\ cmd.op = "issue_get_detail" =>
                  /\ result'.val.description_raw = issues[cmd.arg].description_raw.v
                  /\ result'.val.description_md = issues[cmd.arg].description_md.v
    /\ cmd.op = "issues_search_by_keyword" =>
           \A k \in DOMAIN issues :
               /\ k \in DOMAIN issues'
               /\ issues'[k].description_raw = issues[k].description_raw
               /\ issues'[k].description_md = issues[k].description_md

\* C27 as stated: a detail returned out of the cache comes from a row whose
\* description columns were written by a detail fetch of that key (only
\* upsert_issue_detail sets them), never from a row that a keyword search
\* made; and a summary upsert leaves the description columns of the rows
\* there are as they were.
C27_AsStated == [][C27_Step]_vars

----------------------------------------------------------------------------
(* Claims about projects_sync without the remote, checked under SpecSetup *)

\* projects_sync returns after a fetch_projects that failed.
SyncFetchFailed ==
    /\ pc = "fetched"
    /\ cmd.op = "projects_sync"
    /\ pc' = "done"
    /\ ~remote'.ok

C28_Step ==
    /\ SyncFetchFailed =>
           /\ result' = Err(remote'.err)
           /\ projects' = projects
           /\ cacheReads' = 0
           /\ cacheWrites' = 0
    /\ (pc = "fetched" /\ cmd.op = "projects_sync" /\ ~http.ok) =>
           /\ ~remote'.ok
           /\ remote'.err = http.err

\* C28: a projects_sync whose fetch of the project list failed, in get_with_retry
\* or in reading the body, whatever the kind of the error, returns that error,
\* issues no statement on the projects table and leaves the table as it was.
C28_SyncHasNoFallback == [][C28_Step]_vars

\* A second sync was rate-limited on all its attempts and has returned that
\* error with the projects of the first sync still cached.
C28_Witness ==
    /\ pc = "done"
    /\ cmd.op = "projects_sync"
    /\ remote = Err(RateLimit)
    /\ result = Err(RateLimit)
    /\ DOMAIN projects # {}
    /\ cacheReads = 0

====
